---- MODULE Spec2Model ----
(***************************************************************************)
(* DoroFill: coordinate-driven PDF field filler.                           *)
(*                                                                         *)
(* Strings are sequences of one-character tokens.  The tokens "<ga>" and   *)
(* "<hong>" stand for Hangul syllables (the Hangul class of the source),   *)
(* "<arrow>" for a character that is neither Hangul nor in the WinAnsi set *)
(* of the standard Helvetica font.  Numbers are integers in                *)
(* hundredths (11.00 tons = 1100); every numeric input of the model has at *)
(* most two fractional digits, so the binary floating point sums of the    *)
(* source are exact after toFixed(2).                                      *)
(***************************************************************************)
EXTENDS Integers, Sequences, FiniteSets, TLC

\* ------------------------------------------------------------------------
\* Characters and strings
\* ------------------------------------------------------------------------
Digits == {"0", "1", "2", "3", "4", "5", "6", "7", "8", "9"}

Whitespace == {" "}

HangulChars == {"<ga>", "<hong>"}

NonWinAnsiChars == {"<arrow>"}

DigitVal(c) ==
    CASE c = "0" -> 0 [] c = "1" -> 1 [] c = "2" -> 2 [] c = "3" -> 3
      [] c = "4" -> 4 [] c = "5" -> 5 [] c = "6" -> 6 [] c = "7" -> 7
      [] c = "8" -> 8 [] c = "9" -> 9

DigitChar(d) ==
    CASE d = 0 -> "0" [] d = 1 -> "1" [] d = 2 -> "2" [] d = 3 -> "3"
      [] d = 4 -> "4" [] d = 5 -> "5" [] d = 6 -> "6" [] d = 7 -> "7"
      [] d = 8 -> "8" [] d = 9 -> "9"

\* String.prototype.trim() === '' : only whitespace (or nothing) in the text
IsBlank(s) == \A i \in 1..Len(s) : s[i] \in Whitespace

\* JavaScript truthiness of a string value (undefined is modelled as <<>>)
Truthy(s) == Len(s) > 0

RECURSIVE SkipWs(_, _)
SkipWs(s, i) ==
    IF i <= Len(s) /\ s[i] \in Whitespace THEN SkipWs(s, i + 1) ELSE i

RECURSIVE ScanDigits(_, _)
ScanDigits(s, i) ==
    IF i <= Len(s) /\ s[i] \in Digits THEN ScanDigits(s, i + 1) ELSE i

RECURSIVE DigitsValue(_, _, _)
DigitsValue(s, from, to) ==
    IF to < from THEN 0
    ELSE 10 * DigitsValue(s, from, to - 1) + DigitVal(s[to])

NaN == [nan |-> TRUE, h |-> 0]

Num(h) == [nan |-> FALSE, h |-> h]

\* parseFloat(string): leading whitespace, optional sign, digits, optional
\* fraction; trailing characters are ignored; no digits at all gives NaN.
\* The value is in hundredths (fraction digits after the second are not
\* produced by any input of the model).
parseFloat(s) ==
    LET i0      == SkipWs(s, 1)
        hasSign == i0 <= Len(s) /\ s[i0] \in {"-", "+"}
        neg     == hasSign /\ s[i0] = "-"
        i1      == IF hasSign THEN i0 + 1 ELSE i0
        intEnd  == ScanDigits(s, i1)
        hasInt  == intEnd > i1
        hasDot  == intEnd <= Len(s) /\ s[intEnd] = "."
        fracEnd == IF hasDot THEN ScanDigits(s, intEnd + 1) ELSE intEnd
        nFrac   == IF hasDot THEN fracEnd - (intEnd + 1) ELSE 0
        intVal  == DigitsValue(s, i1, intEnd - 1)
        d1      == IF nFrac >= 1 THEN DigitVal(s[intEnd + 1]) ELSE 0
        d2      == IF nFrac >= 2 THEN DigitVal(s[intEnd + 2]) ELSE 0
        mag     == 100 * intVal + 10 * d1 + d2
    IN  IF ~hasInt /\ nFrac = 0 THEN NaN
        ELSE Num(IF neg THEN 0 - mag ELSE mag)

RECURSIVE IntToChars(_)
IntToChars(n) ==
    IF n < 10 THEN <<DigitChar(n)>>
    ELSE Append(IntToChars(n \div 10), DigitChar(n % 10))

\* Number.prototype.toFixed(2) of a value given in hundredths
toFixed2(h) ==
    LET a    == IF h < 0 THEN 0 - h ELSE h
        body == IntToChars(a \div 100)
                  \o <<".", DigitChar((a % 100) \div 10), DigitChar(a % 10)>>
    IN  IF h < 0 THEN <<"-">> \o body ELSE body

\* /[Hangul]/.test(text)
hasKorean(text) == \E i \in 1..Len(text) : text[i] \in HangulChars

\* text.replace(/[Hangul]/g, '?')
asciiOnly(text) ==
    [i \in 1..Len(text) |-> IF text[i] \in HangulChars THEN "?" ELSE text[i]]

\* The standard Helvetica font encodes WinAnsi only: drawText throws on any
\* other character.
WinAnsiEncodable(text) ==
    \A i \in 1..Len(text) : text[i] \notin (HangulChars \cup NonWinAnsiChars)

\* ------------------------------------------------------------------------
\* Coordinate tables
\* ------------------------------------------------------------------------
\* A JavaScript `undefined` number (a property that is not there)
Undef == -1

\* { x, y, size }
Coord(x, y, s) == [t |-> "coord", x |-> x, y |-> y, size |-> s]

\* a field entry that is JSON null
NullEntry == [t |-> "null", x |-> Undef, y |-> Undef, size |-> Undef]

\* a field entry that is an object without x / y / size: {}
EmptyObjEntry == [t |-> "coord", x |-> Undef, y |-> Undef, size |-> Undef]

\* one character of a string that was spread into an object
CharEntry == [t |-> "char", x |-> Undef, y |-> Undef, size |-> Undef]

PDF_COORDINATES_page1 ==
    [
      dateYear |-> Coord(285, 755, 11), dateMonth |-> Coord(330, 755, 11),
      dateDay |-> Coord(365, 755, 11), dateHour |-> Coord(400, 755, 11),
      dateMinute |-> Coord(435, 755, 11), location |-> Coord(145, 728, 10),
      checkpoint |-> Coord(145, 710, 10), driverName |-> Coord(145, 680, 11),
      driverAddress |-> Coord(145, 662, 10), phoneFixed |-> Coord(145, 644, 10),
      phoneMobile |-> Coord(350, 644, 10), vehicleType |-> Coord(145, 612, 11),
      vehicleRoute |-> Coord(300, 612, 10), plateNumber |-> Coord(145, 594, 11),
      cargo |-> Coord(350, 594, 10), widthMeasured |-> Coord(195, 548, 10),
      heightMeasured |-> Coord(275, 548, 10), lengthMeasured |-> Coord(355, 548, 10),
      widthViolation |-> Coord(195, 530, 10), heightViolation |-> Coord(275, 530, 10),
      lengthViolation |-> Coord(355, 530, 10), axle1Measured |-> Coord(170, 488, 9),
      axle2Measured |-> Coord(210, 488, 9), axle3Measured |-> Coord(250, 488, 9),
      axle4Measured |-> Coord(290, 488, 9), axle5Measured |-> Coord(330, 488, 9),
      axle6Measured |-> Coord(370, 488, 9), axle7Measured |-> Coord(410, 488, 9),
      axle8Measured |-> Coord(450, 488, 9), totalWeightMeasured |-> Coord(515, 488, 9),
      axle1Violation |-> Coord(170, 470, 9), axle2Violation |-> Coord(210, 470, 9),
      axle3Violation |-> Coord(250, 470, 9), axle4Violation |-> Coord(290, 470, 9),
      axle5Violation |-> Coord(330, 470, 9), axle6Violation |-> Coord(370, 470, 9),
      axle7Violation |-> Coord(410, 470, 9), axle8Violation |-> Coord(450, 470, 9),
      totalWeightViolation |-> Coord(515, 470, 9), authorYear |-> Coord(450, 155, 10),
      authorMonth |-> Coord(480, 155, 10), authorDay |-> Coord(510, 155, 10),
      authorOffice |-> Coord(190, 135, 10), authorPosition |-> Coord(190, 118, 10),
      authorName |-> Coord(190, 100, 11)
    ]

PDF_COORDINATES_page2 ==
    [
      dateYear |-> Coord(285, 755, 11), dateMonth |-> Coord(330, 755, 11),
      dateDay |-> Coord(365, 755, 11), dateHour |-> Coord(400, 755, 11),
      dateMinute |-> Coord(435, 755, 11), location |-> Coord(145, 728, 10),
      checkpoint |-> Coord(145, 710, 10), vehicleType |-> Coord(145, 680, 11),
      plateNumber |-> Coord(280, 680, 11), widthMeasured |-> Coord(195, 598, 10),
      heightMeasured |-> Coord(275, 598, 10), lengthMeasured |-> Coord(355, 598, 10),
      widthViolation |-> Coord(195, 580, 10), heightViolation |-> Coord(275, 580, 10),
      lengthViolation |-> Coord(355, 580, 10), axle1Measured |-> Coord(170, 538, 9),
      axle2Measured |-> Coord(210, 538, 9), axle3Measured |-> Coord(250, 538, 9),
      axle4Measured |-> Coord(290, 538, 9), axle5Measured |-> Coord(330, 538, 9),
      axle6Measured |-> Coord(370, 538, 9), axle7Measured |-> Coord(410, 538, 9),
      axle8Measured |-> Coord(450, 538, 9), totalWeightMeasured |-> Coord(515, 538, 9),
      axle1Violation |-> Coord(170, 520, 9), axle2Violation |-> Coord(210, 520, 9),
      axle3Violation |-> Coord(250, 520, 9), axle4Violation |-> Coord(290, 520, 9),
      axle5Violation |-> Coord(330, 520, 9), axle6Violation |-> Coord(370, 520, 9),
      axle7Violation |-> Coord(410, 520, 9), axle8Violation |-> Coord(450, 520, 9),
      totalWeightViolation |-> Coord(515, 520, 9), statementYear |-> Coord(450, 275, 10),
      statementMonth |-> Coord(480, 275, 10), statementDay |-> Coord(510, 275, 10),
      witness1Office |-> Coord(190, 255, 10), witness1Position |-> Coord(190, 238, 10),
      witness1Name |-> Coord(280, 238, 11), witness2Office |-> Coord(190, 218, 10),
      witness2Position |-> Coord(190, 201, 10), witness2Name |-> Coord(280, 201, 11),
      witness3Office |-> Coord(190, 181, 10), witness3Position |-> Coord(190, 164, 10),
      witness3Name |-> Coord(280, 164, 11)
    ]

PDF_COORDINATES == [page1 |-> PDF_COORDINATES_page1, page2 |-> PDF_COORDINATES_page2]

PageKey(pageNum) == IF pageNum = 1 THEN "page1" ELSE "page2"

\* JavaScript truthiness of coords[field]
HasCoord(coords, field) == field \in DOMAIN coords /\ coords[field].t # "null"

\* ------------------------------------------------------------------------
\* Persisted override (localStorage item dorofill_ai_coordinates)
\* ------------------------------------------------------------------------
\* values a page property of the stored object can have
PMissing == [t |-> "missing", f |-> <<>>, s |-> <<>>, n |-> 0]

PNull == [t |-> "null", f |-> <<>>, s |-> <<>>, n |-> 0]

PNum(n) == [t |-> "num", f |-> <<>>, s |-> <<>>, n |-> n]

PStr(s) == [t |-> "str", f |-> <<>>, s |-> s, n |-> 0]

PTable(f) == [t |-> "table", f |-> f, s |-> <<>>, n |-> 0]

\* values JSON.parse can return for the whole item
JNull == [t |-> "null", n |-> 0, page1 |-> PMissing, page2 |-> PMissing]

JNum(n) == [t |-> "num", n |-> n, page1 |-> PMissing, page2 |-> PMissing]

JObj(p1, p2) == [t |-> "obj", n |-> 0, page1 |-> p1, page2 |-> p2]

\* the item itself: not there, a string that is not JSON, or JSON text
StoreAbsent == [k |-> "absent", v |-> JNull]

StoreInvalid == [k |-> "invalid", v |-> JNull]

StoreJson(v) == [k |-> "json", v |-> v]

JsTruthy(v) == v.t = "obj" \/ (v.t = "num" /\ v.n # 0)

PageTruthy(pv) ==
    \/ pv.t = "table"
    \/ pv.t = "num" /\ pv.n # 0
    \/ pv.t = "str" /\ Len(pv.s) > 0

\* aiCoords[pageKey]
PageOf(v, pageKey) == IF v.t = "obj" THEN v[pageKey] ELSE PMissing

\* { ...value }: own enumerable properties of the value
Spread(pv) ==
    CASE pv.t = "table" -> pv.f
      [] pv.t = "str"   -> [key \in {ToString(i - 1) : i \in 1..Len(pv.s)} |-> CharEntry]
      [] OTHER          -> <<>>

\* variant: the override table replaces the page's baseline wholesale
MergeCoords_wholesale(manualCoords, aiPage) == Spread(aiPage)

\* { ...manualCoords, ...aiCoords[pageKey] }
MergeCoords(manualCoords, aiPage) ==
    [key \in (DOMAIN manualCoords) \cup (DOMAIN Spread(aiPage)) |->
        IF key \in DOMAIN Spread(aiPage) THEN Spread(aiPage)[key]
        ELSE manualCoords[key]]

\* saveCoordinates: JSON.stringify + setItem; a storage error is swallowed
saveCoordinates(store, coordinates, quotaOk) ==
    IF quotaOk THEN StoreJson(coordinates) ELSE store

\* loadCoordinates: getItem, JSON.parse; a parse error yields null
loadCoordinates(store) ==
    IF store.k = "json" THEN store.v ELSE JNull

hasAiCoordinates(store) == loadCoordinates(store) # JNull

clearCoordinates(store) == StoreAbsent

\* getPageCoordinates(pageNum): AI coordinates first, manual as fallback
getPageCoordinates(store, pageNum) ==
    LET pageKey  == PageKey(pageNum)
        aiCoords == loadCoordinates(store)
    IN  IF /\ hasAiCoordinates(store)
           /\ JsTruthy(aiCoords)
           /\ PageTruthy(PageOf(aiCoords, pageKey))
        THEN MergeCoords(PDF_COORDINATES[pageKey], PageOf(aiCoords, pageKey))
        ELSE PDF_COORDINATES[pageKey]

\* the value getFieldCoordinate returns when no table has the field
NoCoordinate == [t |-> "none", x |-> Undef, y |-> Undef, size |-> Undef]

\* getFieldCoordinate(fieldName, pageNum)
getFieldCoordinate(store, fieldName, pageNum) ==
    LET pageKey  == PageKey(pageNum)
        aiCoords == loadCoordinates(store)
        aiPage   == PageOf(aiCoords, pageKey)
    IN  IF /\ JsTruthy(aiCoords)
           /\ PageTruthy(aiPage)
           /\ aiPage.t = "table"
           /\ HasCoord(aiPage.f, fieldName)
        THEN aiPage.f[fieldName]
        ELSE IF HasCoord(PDF_COORDINATES[pageKey], fieldName)
             THEN PDF_COORDINATES[pageKey][fieldName]
             ELSE NoCoordinate

\* ------------------------------------------------------------------------
\* State
\* ------------------------------------------------------------------------
VARIABLES
    storage,               \* localStorage item dorofill_ai_coordinates
    apiKey,                \* a Gemini API key is stored
    analysis,              \* the analyzePdfTemplate call in progress, its outcome
    lastResolve,           \* last coordinate lookup: arguments and result
    cachedKoreanFont,      \* module-level font cache (regular)
    cachedKoreanFontBold,  \* module-level font cache (bold)
    gen,                   \* the generateReportPdf / generateStatementPdf calls
    docCount,              \* PDF documents loaded so far
    loading,               \* the loading overlay is shown
    toast,                 \* the last toast shown
    downloads,             \* documents handed to the browser for download
    today,                 \* the date new Date() gives in this session
    calc,                  \* last call of a pure calculator / validator function
    currentPdfTemplate,    \* app.js: the selected template file, or null
    autoSaveIntervalId,    \* app.js: id of the autosave interval, or null
    timers,                \* interval timers of the page that are active
    timerCount,            \* interval ids handed out by setInterval so far
    autosave,              \* localStorage items dorofill_<formType>_autosave
    document,              \* the inputs of the page and their values
    restorePrompt,         \* the restore confirmation dialog
    lastSave,              \* the last saveFormData call: who made it
    pageLoad               \* the page: its form type, whether it has initialised

coordVars == <<storage, apiKey, analysis, lastResolve>>

asmVars == <<cachedKoreanFont, cachedKoreanFontBold, gen, docCount, loading, toast,
             downloads, today>>

calcVars == <<calc>>

appVars == <<currentPdfTemplate, autoSaveIntervalId, timers, timerCount, autosave, document,
             restorePrompt, lastSave, pageLoad>>

vars == <<storage, apiKey, analysis, lastResolve,
          cachedKoreanFont, cachedKoreanFontBold, gen, docCount, loading, toast,
          downloads, today, calc,
          currentPdfTemplate, autoSaveIntervalId, timers, timerCount, autosave, document,
          restorePrompt, lastSave, pageLoad>>

\* app.js state while no page of the program is looked at -------------------
\* currentPdfTemplate = null
NoTemplate == [isFile |-> FALSE, type |-> "", name |-> <<>>]

\* autoSaveIntervalId = null
NullTimer == 0

\* localStorage.getItem gives null
NoItem == [present |-> FALSE, data |-> [null |-> TRUE, fields |-> <<>>, witnesses |-> <<>>]]

NoPrompt == [open |-> FALSE, formType |-> "none", savedData |-> NoItem.data]

NoSave == [by |-> "none", formType |-> "none"]

InitAppIdle ==
    /\ currentPdfTemplate = NoTemplate
    /\ autoSaveIntervalId = NullTimer
    /\ timers = {}
    /\ timerCount = 0
    /\ autosave = [formType \in {"report", "statement"} |-> NoItem]
    /\ document = [el |-> <<>>, cards |-> <<>>]
    /\ restorePrompt = NoPrompt
    /\ lastSave = NoSave
    /\ pageLoad = [formType |-> "none", phase |-> "none"]

\* ------------------------------------------------------------------------
\* AI coordinate analysis (analyzePdfTemplate) and coordinate resolution
\* ------------------------------------------------------------------------
\* objects the vision model can answer with for page 1 (any JSON object)
AiPartial1 == [location |-> Coord(99, 99, 12)]

AiAxleNull1 == [location |-> Coord(99, 99, 12), axle2Measured |-> NullEntry]

AiDateNull1 == [dateYear |-> NullEntry]

AiNoXY1 == [dateMinute |-> EmptyObjEntry]

AiPage1Tables == {AiPartial1, AiAxleNull1, AiDateNull1, AiNoXY1}

\* objects the vision model can answer with for page 2
AiPartial2 == [witness1Name |-> Coord(300, 240, 12)]

AiWitness2 == [witness1Office |-> NullEntry, witness4Name |-> Coord(280, 140, 11)]

AiPage2Tables == {<<>>, AiPartial2, AiWitness2}

\* what the item can hold when the page is loaded: nothing, or whatever an
\* earlier session or another writer of the same origin left there
StoredAtLoad ==
    { StoreAbsent,
      StoreInvalid,
      StoreJson(JNull),
      StoreJson(JNum(5)),
      StoreJson(JObj(PNum(7), PMissing)),
      StoreJson(JObj(PStr(<<"a", "b">>), PNull)),
      StoreJson(JObj(PTable(AiPartial1), PTable(<<>>))) }

\* the field names getFieldCoordinate is asked for
ResolveFields ==
    {"location", "dateYear", "dateMinute", "axle2Measured", "driverName",
     "witness1Name", "witness1Office", "witness4Name", "unknownField"}

AnalysisIdle(outcome) == [pc |-> "idle", page1 |-> PTable(<<>>), outcome |-> outcome]

NoResolve == [kind |-> "none", page |-> 1, field |-> "", store |-> StoreAbsent,
              coords |-> <<>>, coord |-> NoCoordinate]

\* variant: the catch block saves what was analysed before the failure
analyzeCatch_savesPartial(store, result) == saveCoordinates(store, result, TRUE)

\* what the catch block of analyzePdfTemplate leaves in storage: it only
\* logs and rethrows, the partial result is not saved
analyzeCatch(store, result) == store

\* analyzePdfTemplate up to its first await: API key check, empty result
analyzeStart ==
    /\ analysis.pc = "idle"
    /\ IF apiKey
       THEN analysis' = [pc |-> "page1", page1 |-> PTable(<<>>), outcome |-> "none"]
       ELSE analysis' = AnalysisIdle("failed")
    /\ UNCHANGED <<storage, apiKey, lastResolve>>
    /\ UNCHANGED asmVars /\ UNCHANGED calcVars /\ UNCHANGED appVars

\* page 1: pdfToImage, analyzeImageWithGemini (either may throw)
analyzePage1 ==
    /\ analysis.pc = "page1"
    /\ \/ \E tbl \in AiPage1Tables :
            /\ analysis' = [analysis EXCEPT !.pc = "page2", !.page1 = PTable(tbl)]
            /\ UNCHANGED storage
       \/ /\ analysis' = AnalysisIdle("failed")
          /\ storage' = analyzeCatch(storage, JObj(PTable(<<>>), PTable(<<>>)))
    /\ UNCHANGED <<apiKey, lastResolve>>
    /\ UNCHANGED asmVars /\ UNCHANGED calcVars /\ UNCHANGED appVars

\* page count, page 2 when there is one, then saveCoordinates(result)
analyzePage2 ==
    /\ analysis.pc = "page2"
    /\ \/ \E tbl \in AiPage2Tables, quotaOk \in BOOLEAN :
            /\ storage' = saveCoordinates(storage, JObj(analysis.page1, PTable(tbl)), quotaOk)
            /\ analysis' = AnalysisIdle("saved")
       \/ /\ analysis' = AnalysisIdle("failed")
          /\ storage' = analyzeCatch(storage, JObj(analysis.page1, PTable(<<>>)))
    /\ UNCHANGED <<apiKey, lastResolve>>
    /\ UNCHANGED asmVars /\ UNCHANGED calcVars /\ UNCHANGED appVars

\* GeminiAnalyzer.clearCoordinates()
ClearCoordinates ==
    /\ storage' = clearCoordinates(storage)
    /\ UNCHANGED <<apiKey, analysis, lastResolve>>
    /\ UNCHANGED asmVars /\ UNCHANGED calcVars /\ UNCHANGED appVars

\* a call of getPageCoordinates(pageNum)
ResolvePage ==
    /\ \E p \in {1, 2} :
          lastResolve' = [kind |-> "page", page |-> p, field |-> "", store |-> storage,
                          coords |-> getPageCoordinates(storage, p),
                          coord |-> NoCoordinate]
    /\ UNCHANGED <<storage, apiKey, analysis>>
    /\ UNCHANGED asmVars /\ UNCHANGED calcVars /\ UNCHANGED appVars

\* a call of getFieldCoordinate(fieldName, pageNum)
ResolveField ==
    /\ \E p \in {1, 2}, f \in ResolveFields :
          lastResolve' = [kind |-> "field", page |-> p, field |-> f, store |-> storage,
                          coords |-> <<>>,
                          coord |-> getFieldCoordinate(storage, f, p)]
    /\ UNCHANGED <<storage, apiKey, analysis>>
    /\ UNCHANGED asmVars /\ UNCHANGED calcVars /\ UNCHANGED appVars

\* ------------------------------------------------------------------------
\* Document assembly: pure parts
\* ------------------------------------------------------------------------
VIOLATION_LIMITS_AXLE == 1100

VIOLATION_LIMITS_TOTAL == 4400

\* variant: a value equal to the limit counts as a violation
isViolation_atLeast(value, limit) ==
    LET num == parseFloat(value)
    IN  ~num.nan /\ num.h >= limit

\* VALIDATOR.isViolation(value, limit): !isNaN(num) && num > limit
isViolation(value, limit) ==
    LET num == parseFloat(value)
    IN  ~num.nan /\ num.h > limit

\* PDF_CONFIG.fontSize.body, the default of options.size
FontSizeBody == 11

\* formData[key]; a key that is not there reads as undefined (<<>>)
Get(formData, key) == IF key \in DOMAIN formData THEN formData[key] ELSE <<>>

RECURSIVE SplitFrom(_, _, _, _)
SplitFrom(s, sep, i, cur) ==
    IF i > Len(s) THEN <<cur>>
    ELSE IF s[i] = sep THEN <<cur>> \o SplitFrom(s, sep, i + 1, <<>>)
    ELSE SplitFrom(s, sep, i + 1, Append(cur, s[i]))

\* String.prototype.split(sep) for a one-character separator
Split(s, sep) == SplitFrom(s, sep, 1, <<>>)

\* array element or undefined
Nth(parts, n) == IF n <= Len(parts) THEN parts[n] ELSE <<>>

\* parseDatetimeForPdf("2026-01-13T23:30")
parseDatetimeForPdf(datetimeStr) ==
    IF ~Truthy(datetimeStr)
    THEN [year |-> <<>>, month |-> <<>>, day |-> <<>>, hour |-> <<>>, minute |-> <<>>]
    ELSE LET dt       == Split(datetimeStr, "T")
             date     == Split(Nth(dt, 1), "-")
             timePart == IF Truthy(Nth(dt, 2)) THEN Nth(dt, 2) ELSE <<"0", "0", ":", "0", "0">>
             time     == Split(timePart, ":")
         IN  [year |-> Nth(date, 1), month |-> Nth(date, 2), day |-> Nth(date, 3),
              hour |-> Nth(time, 1), minute |-> Nth(time, 2)]

\* parseDateForPdf("2026-01-13")
parseDateForPdf(dateStr) ==
    IF ~Truthy(dateStr)
    THEN [year |-> <<>>, month |-> <<>>, day |-> <<>>]
    ELSE LET date == Split(dateStr, "-")
         IN  [year |-> Nth(date, 1), month |-> Nth(date, 2), day |-> Nth(date, 3)]

\* String(n).padStart(2, '0')
padStart2(n) == IF n < 10 THEN <<"0">> \o IntToChars(n) ELSE IntToChars(n)

\* getTodayString without the padStart of month and day
getTodayString_unpadded(now) ==
    IntToChars(now.year) \o IntToChars(now.month) \o IntToChars(now.day)

\* getTodayString: `${year}${month}${day}` of new Date()
getTodayString(now) ==
    IntToChars(now.year) \o padStart2(now.month) \o padStart2(now.day)

\* downloadPdf: fullFilename = `${filename}_${dateStr}.pdf`
fullFilename(filename, now) ==
    <<filename, "_">> \o getTodayString(now) \o <<".", "p", "d", "f">>

\* One addTextToPdf call the assembler makes, or the TypeError it raises
\* when it reads .x of a coordinate entry that is undefined or null.
Call(field, text, c, isBold, isRed) ==
    [kind |-> "call", field |-> field, text |-> text, x |-> c.x, y |-> c.y,
     size |-> c.size, bold |-> isBold, red |-> isRed]

Throw(field) ==
    [kind |-> "throw", field |-> field, text |-> <<>>, x |-> Undef, y |-> Undef,
     size |-> Undef, bold |-> FALSE, red |-> FALSE]

\* await addTextToPdf(page, text, coords.f.x, coords.f.y, { size: coords.f.size })
Place(field, text, coords) ==
    IF HasCoord(coords, field)
    THEN <<Call(field, text, coords[field], FALSE, FALSE)>>
    ELSE <<Throw(field)>>

\* if (formData.key) { await addTextToPdf(..., coords.f.x, ...) }
PlaceIf(field, text, coords) ==
    IF Truthy(text) THEN Place(field, text, coords) ELSE <<>>

\* everything after the first exception is not executed
RECURSIVE UpToThrow(_)
UpToThrow(ops) ==
    IF ops = <<>> THEN <<>>
    ELSE IF Head(ops).kind = "throw" THEN <<Head(ops)>>
    ELSE <<Head(ops)>> \o UpToThrow(Tail(ops))

insertDatetimeFields(datetime, coords) ==
    Place("dateYear", datetime.year, coords)
      \o Place("dateMonth", datetime.month, coords)
      \o Place("dateDay", datetime.day, coords)
      \o Place("dateHour", datetime.hour, coords)
      \o Place("dateMinute", datetime.minute, coords)

specFields ==
    <<"widthMeasured", "heightMeasured", "lengthMeasured",
      "widthViolation", "heightViolation", "lengthViolation">>

RECURSIVE VehicleSpecsFrom(_, _, _)
VehicleSpecsFrom(formData, coords, i) ==
    IF i > Len(specFields) THEN <<>>
    ELSE LET field == specFields[i]
             value == parseFloat(Get(formData, field))
             here  == IF /\ Truthy(Get(formData, field))
                         /\ HasCoord(coords, field)
                         /\ ~value.nan
                      THEN <<Call(field, toFixed2(value.h), coords[field], FALSE, FALSE)>>
                      ELSE <<>>
         IN  here \o VehicleSpecsFrom(formData, coords, i + 1)

insertVehicleSpecs(formData, coords) == VehicleSpecsFrom(formData, coords, 1)

AxleField(i, suffix) == "axle" \o ToString(i) \o suffix

\* the loop of insertAxleMeasurements after i iterations
RECURSIVE AxleMeasurementsUpTo(_, _, _)
AxleMeasurementsUpTo(formData, coords, i) ==
    IF i = 0 THEN [ops |-> <<>>, total |-> 0]
    ELSE LET prev        == AxleMeasurementsUpTo(formData, coords, i - 1)
             fieldName   == AxleField(i, "Measured")
             axleValue   == parseFloat(Get(formData, fieldName))
             isAxleViolation == axleValue.h > VIOLATION_LIMITS_AXLE
         IN  IF ~axleValue.nan /\ axleValue.h > 0 /\ HasCoord(coords, fieldName)
             THEN [ops   |-> Append(prev.ops,
                                    Call(fieldName, toFixed2(axleValue.h), coords[fieldName],
                                         isAxleViolation, isAxleViolation)),
                   total |-> prev.total + axleValue.h]
             ELSE prev

\* variant: measured values are placed without emphasis
insertAxleMeasurements_plain(formData, coords) ==
    LET r == AxleMeasurementsUpTo(formData, coords, 8)
    IN  [ops   |-> [k \in 1..Len(r.ops) |-> [r.ops[k] EXCEPT !.bold = FALSE, !.red = FALSE]],
         total |-> r.total]

insertAxleMeasurements(formData, coords) == AxleMeasurementsUpTo(formData, coords, 8)

\* the loop of insertAxleViolations after i iterations
RECURSIVE AxleViolationsUpTo(_, _, _)
AxleViolationsUpTo(formData, coords, i) ==
    IF i = 0 THEN [ops |-> <<>>, total |-> 0]
    ELSE LET prev      == AxleViolationsUpTo(formData, coords, i - 1)
             fieldName == AxleField(i, "Violation")
             axleValue == parseFloat(Get(formData, fieldName))
         IN  IF ~axleValue.nan /\ axleValue.h > 0 /\ HasCoord(coords, fieldName)
             THEN [ops   |-> Append(prev.ops,
                                    Call(fieldName, toFixed2(axleValue.h), coords[fieldName],
                                         FALSE, FALSE)),
                   total |-> prev.total + axleValue.h]
             ELSE prev

insertAxleViolations(formData, coords) == AxleViolationsUpTo(formData, coords, 8)

\* variant: a total equal to the limit is emphasised
insertTotalWeights_atLeast(totalMeasured, totalViolation, coords) ==
    LET isTotalViolation == totalMeasured >= VIOLATION_LIMITS_TOTAL
    IN  (IF totalMeasured > 0 /\ HasCoord(coords, "totalWeightMeasured")
         THEN <<Call("totalWeightMeasured", toFixed2(totalMeasured),
                     coords["totalWeightMeasured"], isTotalViolation, isTotalViolation)>>
         ELSE <<>>)
        \o
        (IF totalViolation > 0 /\ HasCoord(coords, "totalWeightViolation")
         THEN <<Call("totalWeightViolation", toFixed2(totalViolation),
                     coords["totalWeightViolation"], FALSE, FALSE)>>
         ELSE <<>>)

insertTotalWeights(totalMeasured, totalViolation, coords) ==
    LET isTotalViolation == totalMeasured > VIOLATION_LIMITS_TOTAL
    IN  (IF totalMeasured > 0 /\ HasCoord(coords, "totalWeightMeasured")
         THEN <<Call("totalWeightMeasured", toFixed2(totalMeasured),
                     coords["totalWeightMeasured"], isTotalViolation, isTotalViolation)>>
         ELSE <<>>)
        \o
        (IF totalViolation > 0 /\ HasCoord(coords, "totalWeightViolation")
         THEN <<Call("totalWeightViolation", toFixed2(totalViolation),
                     coords["totalWeightViolation"], FALSE, FALSE)>>
         ELSE <<>>)

insertAxleWeights(formData, coords) ==
    LET measured  == insertAxleMeasurements(formData, coords)
        violation == insertAxleViolations(formData, coords)
    IN  measured.ops \o violation.ops
          \o insertTotalWeights(measured.total, violation.total, coords)

WitnessField(witnessNum, part) == "witness" \o ToString(witnessNum) \o part

\* one iteration of the loop of insertWitnesses: witnesses[i] at slot witnessNum
WitnessOps(w, witnessNum, coords) ==
    (IF Truthy(w.office) /\ HasCoord(coords, WitnessField(witnessNum, "Office"))
     THEN <<Call(WitnessField(witnessNum, "Office"), w.office,
                 coords[WitnessField(witnessNum, "Office")], FALSE, FALSE)>>
     ELSE <<>>)
    \o
    (IF Truthy(w.position) /\ HasCoord(coords, WitnessField(witnessNum, "Position"))
     THEN <<Call(WitnessField(witnessNum, "Position"), w.position,
                 coords[WitnessField(witnessNum, "Position")], FALSE, FALSE)>>
     ELSE <<>>)
    \o
    (IF Truthy(w.name) /\ HasCoord(coords, WitnessField(witnessNum, "Name"))
     THEN <<Call(WitnessField(witnessNum, "Name"), w.name,
                 coords[WitnessField(witnessNum, "Name")], FALSE, FALSE)>>
     ELSE <<>>)

Min(a, b) == IF a < b THEN a ELSE b

RECURSIVE WitnessesFrom(_, _, _, _)
WitnessesFrom(witnesses, coords, i, maxWitnesses) ==
    IF i >= maxWitnesses THEN <<>>
    ELSE WitnessOps(witnesses[i + 1], i + 1, coords)
           \o WitnessesFrom(witnesses, coords, i + 1, maxWitnesses)

\* variant: every witness is placed, without the cap
insertWitnesses_uncapped(witnesses, coords) ==
    IF Len(witnesses) = 0 THEN <<>>
    ELSE WitnessesFrom(witnesses, coords, 0, Len(witnesses))

\* insertWitnesses(page, witnesses, coords): at most 3 witnesses
insertWitnesses(witnesses, coords) ==
    IF Len(witnesses) = 0 THEN <<>>
    ELSE WitnessesFrom(witnesses, coords, 0, Min(Len(witnesses), 3))

\* the addTextToPdf calls of generateReportPdf, in order
ReportCalls(formData, coords) ==
    LET datetime   == parseDatetimeForPdf(Get(formData, "reportDatetime"))
        authorDate == parseDateForPdf(Get(formData, "authorDate"))
    IN  UpToThrow(
          insertDatetimeFields(datetime, coords)
            \o PlaceIf("location", Get(formData, "reportLocation"), coords)
            \o PlaceIf("driverName", Get(formData, "driverName"), coords)
            \o PlaceIf("driverAddress", Get(formData, "driverAddress"), coords)
            \o PlaceIf("phoneFixed", Get(formData, "phoneFixed"), coords)
            \o PlaceIf("phoneMobile", Get(formData, "phoneMobile"), coords)
            \o PlaceIf("vehicleType", Get(formData, "vehicleType"), coords)
            \o PlaceIf("plateNumber", Get(formData, "plateNumber"), coords)
            \o PlaceIf("vehicleRoute", Get(formData, "route"), coords)
            \o PlaceIf("cargo", Get(formData, "cargo"), coords)
            \o insertVehicleSpecs(formData, coords)
            \o insertAxleWeights(formData, coords)
            \o Place("authorYear", authorDate.year, coords)
            \o Place("authorMonth", authorDate.month, coords)
            \o Place("authorDay", authorDate.day, coords)
            \o PlaceIf("authorOffice", Get(formData, "authorOffice"), coords)
            \o PlaceIf("authorPosition", Get(formData, "authorPosition"), coords)
            \o PlaceIf("authorName", Get(formData, "authorName"), coords))

\* the addTextToPdf calls of generateStatementPdf, in order
StatementCalls(formData, witnesses, coords, now) ==
    LET datetime      == parseDatetimeForPdf(Get(formData, "reportDatetime"))
        statementDate == [year  |-> IntToChars(now.year),
                          month |-> padStart2(now.month),
                          day   |-> padStart2(now.day)]
    IN  UpToThrow(
          insertDatetimeFields(datetime, coords)
            \o PlaceIf("location", Get(formData, "reportLocation"), coords)
            \o PlaceIf("vehicleType", Get(formData, "vehicleType"), coords)
            \o PlaceIf("plateNumber", Get(formData, "plateNumber"), coords)
            \o insertVehicleSpecs(formData, coords)
            \o insertAxleWeights(formData, coords)
            \o Place("statementYear", statementDate.year, coords)
            \o Place("statementMonth", statementDate.month, coords)
            \o Place("statementDay", statementDate.day, coords)
            \o insertWitnesses(witnesses, coords))

\* variant: the upper bound of the page index is off by one
getPdfPage_offByOne(totalPages, pageNumber) ==
    ~(pageNumber < 0 \/ pageNumber > totalPages)

\* getPdfPage(pdfDoc, pageNumber): the page exists
getPdfPage(totalPages, pageNumber) ==
    ~(pageNumber < 0 \/ pageNumber >= totalPages)

\* page index a document type is written to
TargetPage(type) == IF type = "report" THEN 0 ELSE 1

\* loadPdfTemplate(file): the file is there, is a PDF by type or by name,
\* and pdf-lib parses it
loadPdfTemplate(file) == file.present /\ (file.typePdf \/ file.namePdf) /\ file.parses

\* ------------------------------------------------------------------------
\* Document assembly: generateReportPdf / generateStatementPdf
\* ------------------------------------------------------------------------
Slots == {1, 2}

NoFont == [name |-> "none", doc |-> 0]

Font(name, doc) == [name |-> name, doc |-> doc]

File(typePdf, namePdf, parses, pages) ==
    [present |-> TRUE, typePdf |-> typePdf, namePdf |-> namePdf, parses |-> parses,
     pages |-> pages]

NoFile ==
    [present |-> FALSE, typePdf |-> FALSE, namePdf |-> FALSE, parses |-> FALSE, pages |-> 0]

GenIdle ==
    [pc |-> "idle", type |-> "report", file |-> NoFile, form |-> <<>>, witnesses |-> <<>>,
     page |-> Undef, coords |-> <<>>, calls |-> <<>>, idx |-> 1, drawn |-> <<>>,
     cause |-> "none", overlapped |-> FALSE]

InProgress(g) == g.pc \in {"loading", "placing", "fetchRegular", "fetchBold"}

PageNumOf(type) == IF type = "report" THEN 1 ELSE 2

\* the download name stem of a document type (Hangul labels, romanised)
LabelOf(type) == IF type = "report" THEN "jeokbal-bogoseo" ELSE "wiban-jinsulseo"

\* what page.drawText leaves on the page; options.size falls back to the
\* body size when it is undefined
Drawn(op, text, fontName, fontDoc) ==
    [field |-> op.field, text |-> text, x |-> op.x, y |-> op.y,
     size |-> IF op.size = Undef THEN FontSizeBody ELSE op.size,
     bold |-> op.bold, red |-> op.red, font |-> fontName, fontDoc |-> fontDoc]

\* addTextToPdf up to its first fetch or draw
addTextToPdf(op, cachedFont, cachedFontBold) ==
    IF ~Truthy(op.text) \/ IsBlank(op.text) THEN "return"
    ELSE IF hasKorean(op.text)
         THEN IF cachedFont = NoFont /\ ~op.bold THEN "fetchRegular"
              ELSE IF cachedFontBold = NoFont /\ op.bold THEN "fetchBold"
              ELSE "drawKorean"
    ELSE "drawHelvetica"

\* font = isBold ? (cachedKoreanFontBold || cachedKoreanFont) : cachedKoreanFont
KoreanFont(op, cachedFont, cachedFontBold) ==
    IF op.bold
    THEN IF cachedFontBold # NoFont THEN cachedFontBold ELSE cachedFont
    ELSE cachedFont

\* variant: the error is rethrown without hiding the overlay or a toast
Fail_silent(i, cause) ==
    /\ gen' = [gen EXCEPT ![i].pc = "failed", ![i].cause = cause]
    /\ UNCHANGED <<loading, toast>>

\* handlePdfError + rethrow
Fail(i, cause) ==
    /\ gen' = [gen EXCEPT ![i].pc = "failed", ![i].cause = cause]
    /\ loading' = FALSE
    /\ toast' = "error"

Advance(i, draws) ==
    /\ gen' = [gen EXCEPT ![i].pc = "placing", ![i].idx = @ + 1, ![i].drawn = @ \o draws]
    /\ UNCHANGED <<loading, toast>>

\* drawText with the standard Helvetica font: throws on a character it
\* cannot encode, and addTextToPdf rethrows
DrawHelvetica(i, op, text, fontName) ==
    IF WinAnsiEncodable(text)
    THEN Advance(i, <<Drawn(op, text, fontName, i)>>)
    ELSE Fail(i, "placement")

\* drawText with the Korean font, or the '?' fallback when there is none
DrawKorean(i, op, font) ==
    IF font = NoFont
    THEN DrawHelvetica(i, op, asciiOnly(op.text), "Helvetica")
    ELSE Advance(i, <<Drawn(op, op.text, font.name, font.doc)>>)

\* generate*Pdf up to the await of the template load: showLoading
Start(i, type, file, form, witnesses) ==
    /\ gen[i].pc = "idle"
    /\ gen' = [j \in Slots |->
                 IF j = i
                 THEN [GenIdle EXCEPT !.pc = "loading", !.type = type, !.file = file,
                                      !.form = form, !.witnesses = witnesses,
                                      !.overlapped = \E k \in Slots : InProgress(gen[k])]
                 ELSE IF InProgress(gen[j]) THEN [gen[j] EXCEPT !.overlapped = TRUE]
                 ELSE gen[j]]
    /\ loading' = TRUE
    /\ UNCHANGED <<cachedKoreanFont, cachedKoreanFontBold, docCount, toast, downloads, today>>
    /\ UNCHANGED coordVars /\ UNCHANGED calcVars /\ UNCHANGED appVars

\* loadPdfTemplate, getPdfPage, getPageCoordinates, date parsing
Loaded(i) ==
    /\ gen[i].pc = "loading"
    /\ LET g == gen[i]
       IN  IF ~loadPdfTemplate(g.file)
           THEN Fail(i, "template") /\ UNCHANGED docCount
           ELSE IF ~getPdfPage(g.file.pages, TargetPage(g.type))
           THEN Fail(i, "page") /\ docCount' = docCount + 1
           ELSE LET coords == getPageCoordinates(storage, PageNumOf(g.type))
                    calls  == IF g.type = "report"
                              THEN ReportCalls(g.form, coords)
                              ELSE StatementCalls(g.form, g.witnesses, coords, today)
                IN  /\ gen' = [gen EXCEPT ![i].pc = "placing",
                                          ![i].page = TargetPage(g.type),
                                          ![i].coords = coords, ![i].calls = calls]
                    /\ docCount' = docCount + 1
                    /\ UNCHANGED <<loading, toast>>
    /\ UNCHANGED <<cachedKoreanFont, cachedKoreanFontBold, downloads, today>>
    /\ UNCHANGED coordVars /\ UNCHANGED calcVars /\ UNCHANGED appVars

\* the next addTextToPdf call of the assembler, up to its fetch or draw
PlaceField(i) ==
    /\ gen[i].pc = "placing"
    /\ gen[i].idx <= Len(gen[i].calls)
    /\ LET op  == gen[i].calls[gen[i].idx]
           out == addTextToPdf(op, cachedKoreanFont, cachedKoreanFontBold)
       IN  IF op.kind = "throw" THEN Fail(i, "coordinate")
           ELSE CASE out = "return" -> Advance(i, <<>>)
                  [] out \in {"fetchRegular", "fetchBold"} ->
                        /\ gen' = [gen EXCEPT ![i].pc = out]
                        /\ UNCHANGED <<loading, toast>>
                  [] out = "drawKorean" ->
                        DrawKorean(i, op, KoreanFont(op, cachedKoreanFont, cachedKoreanFontBold))
                  [] out = "drawHelvetica" ->
                        DrawHelvetica(i, op, op.text,
                                      IF op.bold THEN "HelveticaBold" ELSE "Helvetica")
    /\ UNCHANGED <<cachedKoreanFont, cachedKoreanFontBold, docCount, downloads, today>>
    /\ UNCHANGED coordVars /\ UNCHANGED calcVars /\ UNCHANGED appVars

\* the font fetch of addTextToPdf returns (or fails), then the draw
FetchFont(i) ==
    /\ gen[i].pc \in {"fetchRegular", "fetchBold"}
    /\ LET op == gen[i].calls[gen[i].idx]
       IN  \E ok \in BOOLEAN :
             IF gen[i].pc = "fetchRegular"
             THEN IF ok
                  THEN /\ cachedKoreanFont' = Font("NotoSansKR", i)
                       /\ UNCHANGED cachedKoreanFontBold
                       /\ DrawKorean(i, op, Font("NotoSansKR", i))
                  ELSE /\ UNCHANGED <<cachedKoreanFont, cachedKoreanFontBold>>
                       /\ DrawHelvetica(i, op, asciiOnly(op.text), "Helvetica")
             ELSE LET bold == IF ok THEN Font("NotoSansKRBold", i) ELSE cachedKoreanFont
                  IN  /\ cachedKoreanFontBold' = bold
                      /\ UNCHANGED cachedKoreanFont
                      /\ DrawKorean(i, op, KoreanFont(op, cachedKoreanFont, bold))
    /\ UNCHANGED <<docCount, downloads, today>>
    /\ UNCHANGED coordVars /\ UNCHANGED calcVars /\ UNCHANGED appVars

\* variant: the download is started without awaiting the placements
Complete_early(i) ==
    /\ gen[i].pc \in {"placing", "fetchRegular", "fetchBold"}
    /\ downloads' = Append(downloads,
                           [doc |-> i, label |-> LabelOf(gen[i].type), date |-> today,
                            name |-> fullFilename(LabelOf(gen[i].type), today)])
    /\ gen' = [gen EXCEPT ![i].pc = "done"]
    /\ loading' = FALSE
    /\ toast' = "success"
    /\ UNCHANGED <<cachedKoreanFont, cachedKoreanFontBold, docCount, today>>
    /\ UNCHANGED coordVars /\ UNCHANGED calcVars /\ UNCHANGED appVars

\* variant: the success path leaves the overlay up
Complete_keepsOverlay(i) ==
    /\ gen[i].pc = "placing"
    /\ gen[i].idx > Len(gen[i].calls)
    /\ downloads' = Append(downloads,
                           [doc |-> i, label |-> LabelOf(gen[i].type), date |-> today,
                            name |-> fullFilename(LabelOf(gen[i].type), today)])
    /\ gen' = [gen EXCEPT ![i].pc = "done"]
    /\ toast' = "success"
    /\ UNCHANGED <<loading, cachedKoreanFont, cachedKoreanFontBold, docCount, today>>
    /\ UNCHANGED coordVars /\ UNCHANGED calcVars /\ UNCHANGED appVars

\* completePdfGeneration: downloadPdf, hideLoading, success toast
Complete(i) ==
    /\ gen[i].pc = "placing"
    /\ gen[i].idx > Len(gen[i].calls)
    /\ \E saved \in BOOLEAN :
          IF saved
          THEN /\ downloads' = Append(downloads,
                                      [doc |-> i, label |-> LabelOf(gen[i].type),
                                       date |-> today,
                                       name |-> fullFilename(LabelOf(gen[i].type), today)])
               /\ gen' = [gen EXCEPT ![i].pc = "done"]
               /\ loading' = FALSE
               /\ toast' = "success"
          ELSE /\ Fail(i, "download")
               /\ UNCHANGED downloads
    /\ UNCHANGED <<cachedKoreanFont, cachedKoreanFontBold, docCount, today>>
    /\ UNCHANGED coordVars /\ UNCHANGED calcVars /\ UNCHANGED appVars

\* ------------------------------------------------------------------------
\* Inputs
\* ------------------------------------------------------------------------
MaxPages == 2

MaxWitnesses == 4

Latin == <<"a", "b">>

Korean == <<"<hong>", "a">>

Arrow == <<"a", "<arrow>">>

KoreanArrow == <<"<ga>", "<arrow>">>

Blank == <<" ">>

Datetime1 == <<"2", "0", "2", "6", "-", "0", "1", "-", "1", "3", "T", "2", "3", ":", "3", "0">>

Date1 == <<"2", "0", "2", "6", "-", "0", "1", "-", "1", "3">>

\* values of eight axle inputs as a partial form
Axles(suffix, values) ==
    [key \in {AxleField(i, suffix) : i \in 1..8} |->
        LET i == CHOOSE j \in 1..8 : AxleField(j, suffix) = key IN values[i]]

Merge(f, g) ==
    [key \in (DOMAIN f) \cup (DOMAIN g) |-> IF key \in DOMAIN f THEN f[key] ELSE g[key]]

FormEmpty == <<>>

FormLatin ==
    Merge([reportDatetime |-> Datetime1, authorDate |-> Date1, reportLocation |-> Latin,
           driverName |-> Latin, plateNumber |-> <<"1", "2">>, phoneMobile |-> Blank,
           widthMeasured |-> <<"2", ".", "5">>, heightMeasured |-> <<"a", "b", "c">>,
           lengthViolation |-> <<"0">>, authorName |-> Latin],
          Merge(Axles("Measured", << <<"1", "0", ".", "5">>, <<>>, <<"a", "b", "c">>, <<"0">>,
                                     <<"-", "3">>, <<"5", ".", "2", "5">>, <<>>, <<>> >>),
                Axles("Violation", << <<>>, <<>>, <<>>, <<>>, <<>>, <<>>, <<>>, <<>> >>)))

FormKorean ==
    Merge([reportDatetime |-> Datetime1, reportLocation |-> Korean, driverName |-> Korean,
           vehicleType |-> Korean, plateNumber |-> Latin, authorName |-> Korean],
          Merge(Axles("Measured", << <<"1", "1", ".", "0", "0">>, <<"1", "1", ".", "0", "1">>,
                                     <<"1", "2">>, <<"1", "0">>, <<>>, <<>>, <<>>, <<>> >>),
                Axles("Violation", << <<>>, <<"0", ".", "0", "1">>, <<"1">>, <<>>,
                                      <<>>, <<>>, <<>>, <<>> >>)))

FormArrow ==
    [reportDatetime |-> Date1, reportLocation |-> Latin, vehicleType |-> Arrow,
     plateNumber |-> Latin]

FormKoreanArrow ==
    [reportLocation |-> KoreanArrow, plateNumber |-> Latin, axle1Measured |-> <<"9">>,
     axle2Measured |-> <<"7", ".", "5">>]

FormLimit ==
    Axles("Measured", << <<"1", "1", ".", "0", "0">>, <<"1", "1", ".", "0", "0">>,
                         <<"1", "1">>, <<"1", "1", ".", "0">>, <<>>, <<>>, <<>>, <<>> >>)

Forms == {FormEmpty, FormLatin, FormKorean, FormArrow, FormKoreanArrow, FormLimit}

\* the n-th witness card: the first has a Hangul name, the second no office
Witness(n) ==
    [office   |-> IF n = 2 THEN <<>> ELSE <<"o">> \o IntToChars(n),
     position |-> <<"p">> \o IntToChars(n),
     name     |-> IF n = 1 THEN <<"<hong>", "1">> ELSE <<"n">> \o IntToChars(n)]

WitnessList(n) == [i \in 1..n |-> Witness(i)]

WitnessLists == {WitnessList(n) : n \in 0..MaxWitnesses}

Files ==
    {NoFile, File(FALSE, FALSE, TRUE, 2), File(TRUE, TRUE, FALSE, 0), File(FALSE, TRUE, TRUE, 2)}
        \cup {File(TRUE, TRUE, TRUE, n) : n \in 0..MaxPages}

TodayDates == {[year |-> 2026, month |-> 1, day |-> 13], [year |-> 2026, month |-> 11, day |-> 5]}

\* overrides an earlier analysis of this program stored
AssembleStores ==
    { StoreAbsent,
      StoreJson(JObj(PTable(AiAxleNull1), PTable(AiWitness2))),
      StoreJson(JObj(PTable(AiDateNull1), PTable(<<>>))) }

\* ------------------------------------------------------------------------
\* Specifications
\* ------------------------------------------------------------------------
NoCalc == [fn |-> "none", value |-> <<>>, limit |-> 0, result |-> FALSE]

InitRest ==
    /\ analysis = AnalysisIdle("none")
    /\ lastResolve = NoResolve
    /\ cachedKoreanFont = NoFont
    /\ cachedKoreanFontBold = NoFont
    /\ gen = [i \in Slots |-> GenIdle]
    /\ docCount = 0
    /\ loading = FALSE
    /\ toast = "none"
    /\ downloads = <<>>
    /\ calc = NoCalc
    /\ InitAppIdle

\* one assembly per page load, any input
Init ==
    /\ storage \in AssembleStores
    /\ apiKey = FALSE
    /\ today \in TodayDates
    /\ InitRest

Next ==
    \/ \E file \in Files, form \in Forms : Start(1, "report", file, form, <<>>)
    \/ \E file \in Files, form \in Forms, ws \in WitnessLists :
          Start(1, "statement", file, form, ws)
    \/ Loaded(1)
    \/ PlaceField(1)
    \/ FetchFont(1)
    \/ Complete(1)

Spec == Init /\ [][Next]_vars

\* every await of an assembly settles: the template load, each placement
\* and font fetch, the serialization and download. Loaded(1) is enabled
\* exactly while the template load is pending and always leaves that
\* position, so weak fairness of it is []<>(the load is not pending).
Fairness ==
    /\ []<>(gen[1].pc # "loading")
    /\ WF_vars(PlaceField(1))
    /\ WF_vars(FetchFont(1))
    /\ WF_vars(Complete(1))

\* every outcome of an assembly: bad template, missing page, a placement
\* that fails or succeeds, a download that fails or succeeds
LiveForms == {FormArrow, FormKoreanArrow}

InitLive ==
    /\ storage = StoreAbsent
    /\ apiKey = FALSE
    /\ today = [year |-> 2026, month |-> 1, day |-> 13]
    /\ InitRest

NextLive ==
    \/ \E file \in Files, form \in LiveForms : Start(1, "report", file, form, <<>>)
    \/ \E file \in Files, form \in LiveForms :
          Start(1, "statement", file, form, WitnessList(1))
    \/ Loaded(1)
    \/ PlaceField(1)
    \/ FetchFont(1)
    \/ Complete(1)

SpecLive == InitLive /\ [][NextLive]_vars /\ Fairness

\* coordinate analysis and resolution -----------------------------------
InitCoords ==
    /\ storage \in StoredAtLoad
    /\ apiKey \in BOOLEAN
    /\ today \in TodayDates
    /\ InitRest

NextCoords ==
    \/ analyzeStart
    \/ analyzePage1
    \/ analyzePage2
    \/ ClearCoordinates
    \/ ResolvePage
    \/ ResolveField

SpecCoords == InitCoords /\ [][NextCoords]_vars

\* two assemblies started by the same page ------------------------------
ConcurrentForms ==
    { [reportLocation |-> Korean],
      [reportLocation |-> Latin, plateNumber |-> Korean, axle1Measured |-> <<"1", "2">>] }

ConcurrentFile == File(TRUE, TRUE, TRUE, 2)

InitConcurrent ==
    /\ storage = StoreAbsent
    /\ apiKey = FALSE
    /\ today \in TodayDates
    /\ InitRest

NextConcurrent ==
    \/ \E i \in Slots, form \in ConcurrentForms :
          Start(i, "report", ConcurrentFile, form, <<>>)
    \/ \E i \in Slots, form \in ConcurrentForms :
          Start(i, "statement", ConcurrentFile, form, WitnessList(1))
    \/ \E i \in Slots : Loaded(i)
    \/ \E i \in Slots : PlaceField(i)
    \/ \E i \in Slots : FetchFont(i)
    \/ \E i \in Slots : Complete(i)

SpecConcurrent == InitConcurrent /\ [][NextConcurrent]_vars

\* threshold evaluation ---------------------------------------------------
WeightStrings ==
    { <<>>, <<" ">>, <<"a", "b", "c">>, <<"-">>, <<".">>, <<"0">>, <<"-", "3">>,
      <<"1", "0">>, <<"1", "0", ".", "9", "9">>, <<"1", "1">>, <<"1", "1", ".", "0">>,
      <<"1", "1", ".", "0", "0">>, <<"1", "1", ".", "0", "1">>, <<" ", "1", "1">>,
      <<"1", "1", "a">>, <<"1", "1", ".", "1">>, <<"1", "2">>, <<"+", "1", "2">>,
      <<"4", "3", ".", "9", "9">>, <<"4", "4">>, <<"4", "4", ".", "0", "0">>,
      <<"4", "4", ".", "0", "1">>, <<"4", "5">>, <<".", "5">>, <<"9", ".">>,
      <<"-", "1", "1", ".", "0", "1">>, <<"a", "1", "2">>, <<"1", "0", "0">> }

Limits == {VIOLATION_LIMITS_AXLE, VIOLATION_LIMITS_TOTAL, 0, 1101}

\* VALIDATOR.checkViolation / window.checkViolation of an input value
CheckViolation ==
    /\ \E value \in WeightStrings, limit \in Limits :
          calc' = [fn |-> "isViolation", value |-> value, limit |-> limit,
                   result |-> isViolation(value, limit)]
    /\ UNCHANGED coordVars /\ UNCHANGED asmVars /\ UNCHANGED appVars

\* the emphasis insertAxleMeasurements gives one axle value on the page
AxleEmphasis ==
    /\ \E value \in WeightStrings :
          LET ops == insertAxleMeasurements([axle1Measured |-> value],
                                            PDF_COORDINATES_page1).ops
          IN  calc' = [fn |-> "axleEmphasis", value |-> value,
                       limit |-> VIOLATION_LIMITS_AXLE,
                       result |-> ops # <<>> /\ ops[1].bold /\ ops[1].red]
    /\ UNCHANGED coordVars /\ UNCHANGED asmVars /\ UNCHANGED appVars

InitCalc ==
    /\ storage = StoreAbsent
    /\ apiKey = FALSE
    /\ today \in TodayDates
    /\ InitRest

NextCalc ==
    \/ CheckViolation
    \/ AxleEmphasis

SpecCalc == InitCalc /\ [][NextCalc]_vars

\* single calls of addTextToPdf ------------------------------------------
\* the older definition of addTextToPdf in the same file: no check of the
\* text, always the standard font and a drawText call
addTextToPdfSecond(op, cachedFont, cachedFontBold) == "drawHelvetica"

PlaceTexts ==
    {<<>>, Blank, <<" ", " ">>, <<" ", "a">>, Latin, Korean, Arrow, KoreanArrow}

DirectCall(text, isBold) == Call("direct", text, Coord(100, 700, 11), isBold, isBold)

\* addTextToPdf(page, text, x, y, options), up to its first fetch or draw
PlaceText ==
    /\ \E text \in PlaceTexts, isBold \in BOOLEAN :
          calc' = [fn |-> "addTextToPdf", value |-> text, limit |-> 0,
                   result |-> addTextToPdf(DirectCall(text, isBold),
                                           cachedKoreanFont, cachedKoreanFontBold)]
    /\ UNCHANGED coordVars /\ UNCHANGED asmVars /\ UNCHANGED appVars

\* the same call served by the older definition
PlaceTextSecond ==
    /\ \E text \in PlaceTexts, isBold \in BOOLEAN :
          calc' = [fn |-> "addTextToPdfSecond", value |-> text, limit |-> 0,
                   result |-> addTextToPdfSecond(DirectCall(text, isBold),
                                                 cachedKoreanFont, cachedKoreanFontBold)]
    /\ UNCHANGED coordVars /\ UNCHANGED asmVars /\ UNCHANGED appVars

InitPlace ==
    /\ storage = StoreAbsent
    /\ apiKey = FALSE
    /\ today \in TodayDates
    /\ analysis = AnalysisIdle("none")
    /\ lastResolve = NoResolve
    /\ cachedKoreanFont \in {NoFont, Font("NotoSansKR", 1)}
    /\ cachedKoreanFontBold \in {NoFont, Font("NotoSansKRBold", 1)}
    /\ gen = [i \in Slots |-> GenIdle]
    /\ docCount = 0
    /\ loading = FALSE
    /\ toast = "none"
    /\ downloads = <<>>
    /\ calc = NoCalc
    /\ InitAppIdle

NextPlace ==
    \/ PlaceText
    \/ PlaceTextSecond

SpecPlace == InitPlace /\ [][NextPlace]_vars

\* CALCULATOR and the totals of the page --------------------------------
MaxViolationCount == 4

MaxWeight == 60

MaxAxleValues == 2

fineRates_first == 300000

fineRates_second == 600000

fineRates_third == 1000000

\* variant: the second violation is fined like the first
calculateFine_secondAsFirst(violationCount, overweightKg) ==
    LET baseFine == IF violationCount >= 3 THEN fineRates_third ELSE fineRates_first
    IN  baseFine + (overweightKg \div 1000) * 50000

\* CALCULATOR.calculateFine(violationCount, overweightKg)
calculateFine(violationCount, overweightKg) ==
    LET baseFine == IF violationCount >= 3 THEN fineRates_third
                    ELSE IF violationCount = 2 THEN fineRates_second
                    ELSE fineRates_first
        additionalFine == (overweightKg \div 1000) * 50000
    IN  baseFine + additionalFine

\* Number.prototype.toFixed(1) of a value given in tenths
toFixed1(t) == IntToChars(t \div 10) \o <<".", DigitChar(t % 10)>>

\* CALCULATOR.calculateOverweightPercentage(actualWeight, allowedWeight);
\* the quotient is rounded to the nearest tenth, a tie upwards
calculateOverweightPercentage(actualWeight, allowedWeight) ==
    IF allowedWeight <= 0 THEN <<"0", "%">>
    ELSE LET over   == IF actualWeight > allowedWeight
                       THEN actualWeight - allowedWeight ELSE 0
             tenths == (2000 * over + allowedWeight) \div (2 * allowedWeight)
         IN  toFixed1(tenths) \o <<"%">>

RECURSIVE SumParsed(_, _)
SumParsed(axleValues, positiveOnly) ==
    IF axleValues = <<>> THEN 0
    ELSE LET num == parseFloat(Head(axleValues))
         IN  (IF num.nan \/ (positiveOnly /\ num.h < 0) THEN 0 ELSE num.h)
               + SumParsed(Tail(axleValues), positiveOnly)

\* variant: negative entries are left out of the sum
calculateTotalWeight_positiveOnly(axleValues) ==
    parseFloat(toFixed2(SumParsed(axleValues, TRUE))).h

\* CALCULATOR.calculateTotalWeight(axleValues): parseFloat(total.toFixed(2))
calculateTotalWeight(axleValues) ==
    parseFloat(toFixed2(SumParsed(axleValues, FALSE))).h

OverweightKgs == {0, 1, 999, 1000, 1001, 2500, 2999, 3000, 12345}

AllowedWeights == {0 - 5, 0, 3, 7, 16, 40, 44}

AxleValuePool ==
    { <<>>, <<"a", "b", "c">>, <<"1", "0", ".", "5">>, <<"-", "3">>,
      <<"0", ".", "2", "5">>, <<"1", "2", "a">> }

AxleValueLists == UNION {[1..n -> AxleValuePool] : n \in 0..MaxAxleValues}

TotalsPool == {0, 1, 4399, 4400, 4401, 5000}

\* the page-1 table, also without an entry for the measured total
TotalsCoords ==
    { PDF_COORDINATES_page1,
      [PDF_COORDINATES_page1 EXCEPT !["totalWeightMeasured"] = NullEntry] }

EvalFine ==
    /\ \E violationCount \in 0..MaxViolationCount, overweightKg \in OverweightKgs :
          calc' = [fn |-> "calculateFine", value |-> violationCount, limit |-> overweightKg,
                   result |-> calculateFine(violationCount, overweightKg)]
    /\ UNCHANGED coordVars /\ UNCHANGED asmVars /\ UNCHANGED appVars

EvalPercentage ==
    /\ \E actualWeight \in 0..MaxWeight, allowedWeight \in AllowedWeights :
          calc' = [fn |-> "calculateOverweightPercentage", value |-> actualWeight,
                   limit |-> allowedWeight,
                   result |-> calculateOverweightPercentage(actualWeight, allowedWeight)]
    /\ UNCHANGED coordVars /\ UNCHANGED asmVars /\ UNCHANGED appVars

EvalTotalWeight ==
    /\ \E axleValues \in AxleValueLists :
          calc' = [fn |-> "calculateTotalWeight", value |-> axleValues, limit |-> 0,
                   result |-> calculateTotalWeight(axleValues)]
    /\ UNCHANGED coordVars /\ UNCHANGED asmVars /\ UNCHANGED appVars

\* insertTotalWeights(page, totalMeasured, totalViolation, coords)
EvalTotals ==
    /\ \E totalMeasured \in TotalsPool, totalViolation \in TotalsPool, coords \in TotalsCoords :
          calc' = [fn |-> "insertTotalWeights",
                   value |-> <<totalMeasured, totalViolation>>, limit |-> coords,
                   result |-> insertTotalWeights(totalMeasured, totalViolation, coords)]
    /\ UNCHANGED coordVars /\ UNCHANGED asmVars /\ UNCHANGED appVars

NextArith ==
    \/ EvalFine
    \/ EvalPercentage
    \/ EvalTotalWeight
    \/ EvalTotals

SpecArith == InitCalc /\ [][NextArith]_vars

\* ------------------------------------------------------------------------
\* app.js: the form, its collection and validation
\* ------------------------------------------------------------------------
\* String.prototype.trim
RECURSIVE TrimLeft(_)
TrimLeft(s) ==
    IF s # <<>> /\ Head(s) \in Whitespace THEN TrimLeft(Tail(s)) ELSE s

RECURSIVE TrimRight(_)
TrimRight(s) ==
    IF s # <<>> /\ s[Len(s)] \in Whitespace THEN TrimRight(SubSeq(s, 1, Len(s) - 1)) ELSE s

trim(s) == TrimRight(TrimLeft(s))

\* s.replace(/[...]/g, ''): s without the characters of a set
RECURSIVE Without(_, _)
Without(s, chars) ==
    IF s = <<>> THEN <<>>
    ELSE IF Head(s) \in chars THEN Without(Tail(s), chars)
    ELSE <<Head(s)>> \o Without(Tail(s), chars)

AllIn(s, from, to, chars) == \A k \in from..to : s[k] \in chars

\* VALIDATOR.isValidVehicleNumber: /^\d{2,3}[ga-hih]\d{4}$/ or
\* /^[ga-hih]{2}\d{2}[ga-hih]\d{4}$/ on the value without whitespace
isValidVehicleNumber(vehicleNumber) ==
    IF ~Truthy(vehicleNumber) THEN FALSE
    ELSE LET v == Without(vehicleNumber, Whitespace)
             n == Len(v)
         IN  \/ /\ n \in {7, 8}
                /\ AllIn(v, 1, n - 5, Digits)
                /\ v[n - 4] \in HangulChars
                /\ AllIn(v, n - 3, n, Digits)
             \/ /\ n = 9
                /\ AllIn(v, 1, 2, HangulChars)
                /\ AllIn(v, 3, 4, Digits)
                /\ v[5] \in HangulChars
                /\ AllIn(v, 6, 9, Digits)

\* VALIDATOR.isValidPhone: /^0\d{9,10}$/ on the value without '-' and whitespace
isValidPhone(phone) ==
    IF ~Truthy(phone) THEN FALSE
    ELSE LET cleaned == Without(phone, Whitespace \cup {"-"})
         IN  /\ Len(cleaned) \in {10, 11}
             /\ cleaned[1] = "0"
             /\ AllIn(cleaned, 2, Len(cleaned), Digits)

\* VALIDATION_RULES[formType].required, in order
RequiredFields(formType) ==
    CASE formType = "report" ->
            <<"datetime", "location", "driverName", "plateNumber", "authorName">>
      [] formType = "statement" -> <<"datetime", "location">>
      [] OTHER -> <<>>

\* VALIDATION_RULES.statement.minWitnesses
minWitnesses == 1

ErrRequired(field) == [kind |-> "required", field |-> field]

ErrWitnesses == [kind |-> "minWitnesses", field |-> "witnesses"]

ErrPlate == [kind |-> "vehicleNumber", field |-> "plateNumber"]

ErrPhone == [kind |-> "phone", field |-> "phoneMobile"]

\* the required-field loop of validateFormData from the i-th rule on
RECURSIVE RequiredErrorsFrom(_, _, _)
RequiredErrorsFrom(fields, rules, i) ==
    IF i > Len(rules) THEN <<>>
    ELSE LET v == Get(fields, rules[i])
         IN  (IF ~Truthy(v) \/ trim(v) = <<>> THEN <<ErrRequired(rules[i])>> ELSE <<>>)
             \o RequiredErrorsFrom(fields, rules, i + 1)

\* variant: a whitespace-only required value is accepted
validateRequired_noTrim(fields, formType) ==
    LET rules == RequiredFields(formType)
    IN  SelectSeq([i \in 1..Len(rules) |-> ErrRequired(rules[i])],
                  LAMBDA e : ~Truthy(Get(fields, e.field)))

validateRequired(fields, formType) ==
    RequiredErrorsFrom(fields, RequiredFields(formType), 1)

\* validateFormData(data, formType); data is the field mapping and, for a
\* statement, the witnesses array
validateFormData(data, formType) ==
    IF formType \notin {"report", "statement"}
    THEN [valid |-> TRUE, errors |-> <<>>, missingFields |-> <<>>]
    ELSE LET required == validateRequired(data.fields, formType)
             witness  == IF formType = "statement" /\ Len(data.witnesses) < minWitnesses
                         THEN <<ErrWitnesses>> ELSE <<>>
             plate    == IF Truthy(Get(data.fields, "plateNumber"))
                            /\ ~isValidVehicleNumber(Get(data.fields, "plateNumber"))
                         THEN <<ErrPlate>> ELSE <<>>
             phone    == IF Truthy(Get(data.fields, "phoneMobile"))
                            /\ ~isValidPhone(Get(data.fields, "phoneMobile"))
                         THEN <<ErrPhone>> ELSE <<>>
             errors   == required \o witness \o plate \o phone
             missing  == required \o witness
         IN  [valid |-> errors = <<>>,
              errors |-> errors,
              missingFields |-> [k \in 1..Len(missing) |-> missing[k].field]]

\* the keys collectFormData writes for a form type
ReportKeys ==
    {"datetime", "location", "driverName", "driverAddress", "phoneFixed", "phoneMobile",
     "vehicleType", "plateNumber", "route", "cargo",
     "widthMeasured", "widthAllowed", "widthViolation",
     "heightMeasured", "heightAllowed", "heightViolation",
     "lengthMeasured", "lengthAllowed", "lengthViolation",
     "totalWeightMeasured", "totalWeightViolation",
     "authorDate", "authorOffice", "authorPosition", "authorName"}
    \cup {AxleField(i, "Measured") : i \in 1..8}
    \cup {AxleField(i, "Violation") : i \in 1..8}

StatementKeys ==
    {"datetime", "location", "vehicleType", "plateNumber",
     "authorDate", "authorOffice", "authorPosition", "authorName"}

FormKeys(formType) ==
    CASE formType = "report" -> ReportKeys
      [] formType = "statement" -> StatementKeys
      [] OTHER -> {}

\* the id of the input element collectFormData reads a key from
ElementId(formType, key) ==
    CASE formType = "report" /\ key = "datetime" -> "reportDatetime"
      [] formType = "report" /\ key = "location" -> "reportLocation"
      [] formType = "statement" /\ key = "datetime" -> "statementDatetime"
      [] formType = "statement" /\ key = "location" -> "statementLocation"
      [] formType = "statement" /\ key = "vehicleType" -> "statementVehicleType"
      [] formType = "statement" /\ key = "plateNumber" -> "statementPlateNumber"
      [] formType = "statement" /\ key = "authorDate" -> "statementAuthorDate"
      [] formType = "statement" /\ key = "authorOffice" -> "statementAuthorOffice"
      [] formType = "statement" /\ key = "authorPosition" -> "statementAuthorPosition"
      [] formType = "statement" /\ key = "authorName" -> "statementAuthorName"
      [] OTHER -> key

\* the document: el maps the id of an input element to its value, cards
\* lists the data-witness-index of the witness cards in document order
Dom(el, cards) == [el |-> el, cards |-> cards]

\* getElementValue: element ? element.value.trim() : ''
getElementValue(dom, id) == IF id \in DOMAIN dom.el THEN trim(dom.el[id]) ELSE <<>>

\* collectWitnesses from the k-th card on: cards without a name are left out
RECURSIVE CollectWitnessesFrom(_, _)
CollectWitnessesFrom(dom, k) ==
    IF k > Len(dom.cards) THEN <<>>
    ELSE LET index   == dom.cards[k]
             witness == [office   |-> getElementValue(dom, WitnessField(index, "Office")),
                         position |-> getElementValue(dom, WitnessField(index, "Position")),
                         name     |-> getElementValue(dom, WitnessField(index, "Name"))]
         IN  (IF Truthy(witness.name) THEN <<witness>> ELSE <<>>)
             \o CollectWitnessesFrom(dom, k + 1)

collectWitnesses(dom) == CollectWitnessesFrom(dom, 1)

\* collectFormData(formType): the flat mapping, and the witnesses array of
\* a statement
collectFormData(dom, formType) ==
    [null      |-> FALSE,
     fields    |-> [key \in FormKeys(formType) |->
                       getElementValue(dom, ElementId(formType, key))],
     witnesses |-> IF formType = "statement" THEN collectWitnesses(dom) ELSE <<>>]

NullData == [null |-> TRUE, fields |-> <<>>, witnesses |-> <<>>]

\* collectAndValidateForm(formType)
collectAndValidateForm(dom, formType) ==
    LET data       == collectFormData(dom, formType)
        validation == validateFormData(data, formType)
    IN  IF ~validation.valid
        THEN [data |-> NullData, valid |-> FALSE, errors |-> validation.errors]
        ELSE [data |-> data, valid |-> TRUE, errors |-> <<>>]

\* autosave -----------------------------------------------------------------
\* saveFormData: localStorage.setItem(key, JSON.stringify(data)); the item
\* is kept as the mapping JSON.parse gives back (strings and an array of
\* string records survive the round trip as they are; _savedAt is left out,
\* restoreFormData skips it). setItem may throw, the catch returns false.
saveFormData(store, d, formType, setItemOk) ==
    IF formType \notin {"report", "statement"} \/ ~setItemOk THEN store
    ELSE [store EXCEPT ![formType] = [present |-> TRUE, data |-> collectFormData(d, formType)]]

\* getSavedFormData: null when there is no item
getSavedFormData(store, formType) ==
    IF formType \in {"report", "statement"} /\ store[formType].present
    THEN store[formType].data
    ELSE NoItem.data

\* clearSavedFormData
clearSavedFormData(store, formType) ==
    IF formType \in {"report", "statement"} THEN [store EXCEPT ![formType] = NoItem]
    ELSE store

\* restoreWitnesses from the k-th witness on: the k-th saved witness goes to
\* the inputs witness<k>Office / Position / Name, where they exist
RECURSIVE RestoreWitnessesFrom(_, _, _)
RestoreWitnessesFrom(el, witnesses, k) ==
    IF k > Len(witnesses) THEN el
    ELSE LET w    == witnesses[k]
             put  == [id \in {WitnessField(k, "Office"), WitnessField(k, "Position"),
                              WitnessField(k, "Name")} \cap DOMAIN el |->
                         CASE id = WitnessField(k, "Office") -> w.office
                           [] id = WitnessField(k, "Position") -> w.position
                           [] OTHER -> w.name]
         IN  RestoreWitnessesFrom([id \in DOMAIN el |->
                                     IF id \in DOMAIN put THEN put[id] ELSE el[id]],
                                  witnesses, k + 1)

restoreWitnesses(el, witnesses) == RestoreWitnessesFrom(el, witnesses, 1)

\* restoreFormData, the loop over Object.keys(savedData): the key itself is
\* used as the element id
restoreFields(el, formType, fields) ==
    [id \in DOMAIN el |->
        IF id \in DOMAIN fields /\ Truthy(fields[id]) THEN fields[id] ELSE el[id]]

\* restoreFormData(formType, data): the document after it
restoreFormData(d, formType, savedData) ==
    IF formType \notin {"report", "statement"} \/ savedData.null THEN d
    ELSE LET el == restoreFields(d.el, formType, savedData.fields)
         IN  Dom(IF formType = "statement" /\ Len(savedData.witnesses) > 0
                 THEN restoreWitnesses(el, savedData.witnesses)
                 ELSE el,
                 d.cards)

\* the same page with every input empty
Cleared(d) == Dom([id \in DOMAIN d.el |-> <<>>], d.cards)

\* inputs of the form functions ---------------------------------------------
PlateOk == <<"1", "2", "<ga>", "1", "2", "3", "4">>

PhoneOk == <<"0", "1", "0", "-", "1", "2", "3", "4", "-", "5", "6", "7", "8">>

\* mappings handed to validateFormData directly
ValidateFields ==
    {<<>>}
    \cup { [datetime |-> dt, location |-> loc, driverName |-> dn, plateNumber |-> pl,
            authorName |-> an, phoneMobile |-> ph] :
              dt \in {<<" ">>, Datetime1},
              loc \in {<<>>, Latin},
              dn \in {<<>>, Korean},
              pl \in {<<>>, PlateOk, <<"a", "b">>},
              an \in {<<" ", " ">>, <<"a">>},
              ph \in {PhoneOk, <<"1", "2">>} }

ValidateInputs ==
    { [null |-> FALSE, fields |-> f, witnesses |-> ws] :
         f \in ValidateFields, ws \in {<<>>, WitnessList(1)} }

FormTypes == {"report", "statement", "memo"}

\* documents: the inputs of both pages, values as typed (not yet trimmed)
Doms ==
    { Dom([reportDatetime |-> dt, reportLocation |-> loc, driverName |-> dn,
           plateNumber |-> PlateOk, authorName |-> an,
           axle1Measured |-> a1, axle2Measured |-> <<"1", "0">>,
           statementDatetime |-> dt, statementLocation |-> loc,
           statementPlateNumber |-> PlateOk,
           witness1Name |-> <<>>, witness1Office |-> <<"o", "1">>,
           witness2Name |-> <<"n", "2">>, witness2Position |-> <<"p", "2">>],
          cards) :
        dt \in {<<>>, Datetime1},
        loc \in {<<" ">>, <<" ", "a", " ">>},
        dn \in {<<>>, Korean},
        an \in {<<>>, <<"a">>},
        a1 \in {<<>>, <<"-", "3">>, <<"1", "2", ".", "5">>},
        cards \in {<<>>, <<1, 2>>} }

EvalValidate ==
    /\ \E data \in ValidateInputs, formType \in FormTypes :
          calc' = [fn |-> "validateFormData", value |-> data, limit |-> formType,
                   result |-> validateFormData(data, formType)]
    /\ UNCHANGED coordVars /\ UNCHANGED asmVars /\ UNCHANGED appVars

EvalCollectAndValidate ==
    /\ \E dom \in Doms, formType \in {"report", "statement"} :
          calc' = [fn |-> "collectAndValidateForm", value |-> dom, limit |-> formType,
                   result |-> collectAndValidateForm(dom, formType)]
    /\ UNCHANGED coordVars /\ UNCHANGED asmVars /\ UNCHANGED appVars

\* generateReportPdf handed the mapping of collectFormData('report') as it is
EvalReportOfCollected ==
    /\ \E dom \in Doms :
          LET formData == collectFormData(dom, "report").fields
          IN  calc' = [fn |-> "generateReportPdf", value |-> formData, limit |-> 0,
                       result |-> ReportCalls(formData, PDF_COORDINATES_page1)]
    /\ UNCHANGED coordVars /\ UNCHANGED asmVars /\ UNCHANGED appVars

\* the total the form shows (bindTotalWeightCalculation) and the total the
\* report accumulates for the same eight axle inputs
EvalFormAndPdfTotal ==
    /\ \E dom \in Doms :
          LET formData == collectFormData(dom, "report").fields
              axleInputs == SelectSeq([i \in 1..8 |-> AxleField(i, "Measured")],
                                      LAMBDA id : id \in DOMAIN dom.el)
              values   == [k \in 1..Len(axleInputs) |-> dom.el[axleInputs[k]]]
          IN  calc' = [fn |-> "totalWeight", value |-> values,
                       limit |-> calculateTotalWeight(values),
                       result |-> AxleMeasurementsUpTo(formData, PDF_COORDINATES_page1,
                                                       8).total]
    /\ UNCHANGED coordVars /\ UNCHANGED asmVars /\ UNCHANGED appVars

\* saveFormData, the inputs emptied, restoreFormData from the stored item
EvalSaveRestore ==
    /\ \E d \in Doms, formType \in {"report", "statement"} :
          LET store == saveFormData([t \in {"report", "statement"} |-> NoItem],
                                    d, formType, TRUE)
          IN  calc' = [fn |-> "saveRestore", value |-> d, limit |-> formType,
                       result |-> restoreFormData(Cleared(d), formType,
                                                  getSavedFormData(store, formType))]
    /\ UNCHANGED coordVars /\ UNCHANGED asmVars /\ UNCHANGED appVars

NextForm ==
    \/ EvalSaveRestore
    \/ EvalValidate
    \/ EvalCollectAndValidate
    \/ EvalReportOfCollected
    \/ EvalFormAndPdfTotal

InitForm ==
    /\ storage = StoreAbsent
    /\ apiKey = FALSE
    /\ today = [year |-> 2026, month |-> 1, day |-> 13]
    /\ InitRest

SpecForm == InitForm /\ [][NextForm]_vars

\* ------------------------------------------------------------------------
\* documents generated one after the other in one session
\* ------------------------------------------------------------------------
\* a generate*Pdf call made when no other call is in progress
StartAfter(i, type, file, form, witnesses) ==
    /\ \A k \in Slots : ~InProgress(gen[k])
    /\ Start(i, type, file, form, witnesses)

NextSequential ==
    \/ \E i \in Slots, form \in ConcurrentForms :
          StartAfter(i, "report", ConcurrentFile, form, <<>>)
    \/ \E i \in Slots, form \in ConcurrentForms :
          StartAfter(i, "statement", ConcurrentFile, form, WitnessList(1))
    \/ \E i \in Slots : Loaded(i)
    \/ \E i \in Slots : PlaceField(i)
    \/ \E i \in Slots : FetchFont(i)
    \/ \E i \in Slots : Complete(i)

SpecSequential == InitConcurrent /\ [][NextSequential]_vars

\* ------------------------------------------------------------------------
\* app.js: the PDF template selection
\* ------------------------------------------------------------------------
\* String.prototype.toLowerCase on the letters file names of the model use
toLowerCaseChar(c) ==
    CASE c = "P" -> "p" [] c = "D" -> "d" [] c = "F" -> "f" [] c = "A" -> "a"
      [] OTHER -> c

toLowerCase(s) == [k \in 1..Len(s) |-> toLowerCaseChar(s[k])]

\* String.prototype.endsWith
endsWith(s, suffix) ==
    /\ Len(s) >= Len(suffix)
    /\ SubSeq(s, Len(s) - Len(suffix) + 1, Len(s)) = suffix

\* a File of the input element
TemplateFile(type, name) == [isFile |-> TRUE, type |-> type, name |-> name]

\* variant: only the extension decides, compared as it is written
isPdfFile_extensionOnly(file) == endsWith(file.name, <<".", "p", "d", "f">>)

\* the negation of the rejection test of the change handler:
\* file.type !== 'application/pdf' && !file.name.toLowerCase().endsWith('.pdf')
isPdfFile(file) ==
    file.type = "application/pdf" \/ endsWith(toLowerCase(file.name), <<".", "p", "d", "f">>)

\* hasPdfTemplate: currentPdfTemplate !== null
hasPdfTemplate(template) == template # NoTemplate

\* the change handler of the template input: e.target.files[0] may be
\* undefined (the dialog was cancelled)
templateChange(template, file) ==
    IF ~file.isFile THEN template
    ELSE IF ~isPdfFile(file) THEN NoTemplate
    ELSE file

FileTypes == {"application/pdf", "", "text/plain"}

FileNames ==
    { <<"a", ".", "p", "d", "f">>, <<"A", ".", "P", "D", "F">>, <<"a", ".", "t", "x", "t">>,
      <<"p", "d", "f">>, <<"a", ".", "p", "d", "f", ".", "t", "x", "t">> }

SelectableFiles ==
    {NoTemplate} \cup {TemplateFile(type, name) : type \in FileTypes, name \in FileNames}

\* a change event of the template input
TemplateChange ==
    /\ \E file \in SelectableFiles :
          LET template == templateChange(currentPdfTemplate, file)
          IN  /\ currentPdfTemplate' = template
              /\ calc' = [fn |-> "templateChange", value |-> file,
                          limit |-> currentPdfTemplate, result |-> hasPdfTemplate(template)]
    /\ UNCHANGED <<autoSaveIntervalId, timers, timerCount, autosave, document,
                   restorePrompt, lastSave, pageLoad>>
    /\ UNCHANGED coordVars /\ UNCHANGED asmVars

\* clearPdfTemplate
ClearPdfTemplate ==
    /\ currentPdfTemplate' = NoTemplate
    /\ calc' = [fn |-> "clearPdfTemplate", value |-> NoTemplate,
                limit |-> currentPdfTemplate, result |-> hasPdfTemplate(NoTemplate)]
    /\ UNCHANGED <<autoSaveIntervalId, timers, timerCount, autosave, document,
                   restorePrompt, lastSave, pageLoad>>
    /\ UNCHANGED coordVars /\ UNCHANGED asmVars

NextTemplate ==
    \/ TemplateChange
    \/ ClearPdfTemplate

SpecTemplate == InitForm /\ [][NextTemplate]_vars

\* ------------------------------------------------------------------------
\* app.js: autosave of the form and the restore prompt
\* ------------------------------------------------------------------------
MaxTimers == 3

\* the form as the user may have typed it
TypedDom(location, name) ==
    Dom([reportLocation |-> location, statementLocation |-> location,
         driverName |-> name, plateNumber |-> <<>>], <<>>)

TypedDoms == {TypedDom(<<>>, <<>>), TypedDom(Latin, Korean), TypedDom(<<"b">>, <<>>)}

BlankDom == TypedDom(<<>>, <<>>)

NoItems == [formType \in {"report", "statement"} |-> NoItem]

\* variant: the interval that is running is not cleared first
startAutoSave_keepsOld(formType, setItemOk) ==
    IF formType = "none"
    THEN UNCHANGED <<autoSaveIntervalId, timers, timerCount, autosave, lastSave>>
    ELSE /\ timers' = timers \cup {[id |-> timerCount + 1, formType |-> formType]}
         /\ timerCount' = timerCount + 1
         /\ autoSaveIntervalId' = timerCount + 1
         /\ autosave' = saveFormData(autosave, document, formType, setItemOk)
         /\ lastSave' = [by |-> "immediate", formType |-> formType]

\* startAutoSave(formType): clearInterval of the running interval, one
\* immediate saveFormData, setInterval
startAutoSave(formType, setItemOk) ==
    IF formType = "none"
    THEN UNCHANGED <<autoSaveIntervalId, timers, timerCount, autosave, lastSave>>
    ELSE /\ timers' = {t \in timers : t.id # autoSaveIntervalId}
                         \cup {[id |-> timerCount + 1, formType |-> formType]}
         /\ timerCount' = timerCount + 1
         /\ autoSaveIntervalId' = timerCount + 1
         /\ autosave' = saveFormData(autosave, document, formType, setItemOk)
         /\ lastSave' = [by |-> "immediate", formType |-> formType]

\* initializeAutoSave(formType), 500 ms after DOMContentLoaded
initializeAutoSave ==
    /\ pageLoad.phase = "loaded"
    /\ LET formType  == pageLoad.formType
           savedData == getSavedFormData(autosave, formType)
       IN  /\ restorePrompt' = IF ~savedData.null
                               THEN [open |-> TRUE, formType |-> formType,
                                     savedData |-> savedData]
                               ELSE restorePrompt
           /\ \E setItemOk \in BOOLEAN : startAutoSave(formType, setItemOk)
    /\ pageLoad' = [pageLoad EXCEPT !.phase = "ready"]
    /\ UNCHANGED <<currentPdfTemplate, document>>
    /\ UNCHANGED coordVars /\ UNCHANGED asmVars /\ UNCHANGED calcVars

\* a later call of startAutoSave, with the page's form type or with none
StartAutoSave ==
    /\ pageLoad.phase = "ready"
    /\ timerCount < MaxTimers
    /\ \E formType \in {pageLoad.formType, "none"}, setItemOk \in BOOLEAN :
          startAutoSave(formType, setItemOk)
    /\ UNCHANGED <<currentPdfTemplate, document, restorePrompt, pageLoad>>
    /\ UNCHANGED coordVars /\ UNCHANGED asmVars /\ UNCHANGED calcVars

\* stopAutoSave
StopAutoSave ==
    /\ pageLoad.phase = "ready"
    /\ IF autoSaveIntervalId # NullTimer
       THEN /\ timers' = {t \in timers : t.id # autoSaveIntervalId}
            /\ autoSaveIntervalId' = NullTimer
       ELSE UNCHANGED <<timers, autoSaveIntervalId>>
    /\ UNCHANGED <<currentPdfTemplate, timerCount, autosave, document, restorePrompt,
                   lastSave, pageLoad>>
    /\ UNCHANGED coordVars /\ UNCHANGED asmVars /\ UNCHANGED calcVars

\* the callback of an active interval: saveFormData(formType)
IntervalFires ==
    /\ pageLoad.phase = "ready"
    /\ \E t \in timers, setItemOk \in BOOLEAN :
          /\ autosave' = saveFormData(autosave, document, t.formType, setItemOk)
          /\ lastSave' = [by |-> "interval", formType |-> t.formType]
    /\ UNCHANGED <<currentPdfTemplate, autoSaveIntervalId, timers, timerCount, document,
                   restorePrompt, pageLoad>>
    /\ UNCHANGED coordVars /\ UNCHANGED asmVars /\ UNCHANGED calcVars

\* the beforeunload listener: saveFormData(formType)
BeforeUnload ==
    /\ pageLoad.phase = "ready"
    /\ \E setItemOk \in BOOLEAN :
          autosave' = saveFormData(autosave, document, pageLoad.formType, setItemOk)
    /\ lastSave' = [by |-> "beforeunload", formType |-> pageLoad.formType]
    /\ pageLoad' = [pageLoad EXCEPT !.phase = "unloading"]
    /\ UNCHANGED <<currentPdfTemplate, autoSaveIntervalId, timers, timerCount, document,
                   restorePrompt>>
    /\ UNCHANGED coordVars /\ UNCHANGED asmVars /\ UNCHANGED calcVars

\* the page is loaded again: script state and inputs start over, the
\* localStorage items stay
Reload ==
    /\ pageLoad.phase = "unloading"
    /\ pageLoad' = [pageLoad EXCEPT !.phase = "loaded"]
    /\ currentPdfTemplate' = NoTemplate
    /\ autoSaveIntervalId' = NullTimer
    /\ timers' = {}
    /\ timerCount' = 0
    /\ document' = BlankDom
    /\ restorePrompt' = NoPrompt
    /\ lastSave' = NoSave
    /\ UNCHANGED autosave
    /\ UNCHANGED coordVars /\ UNCHANGED asmVars /\ UNCHANGED calcVars

\* the confirm button of the restore prompt: restoreFormData(formType, savedData)
ConfirmRestore ==
    /\ pageLoad.phase = "ready"
    /\ restorePrompt.open
    /\ document' = restoreFormData(document, restorePrompt.formType, restorePrompt.savedData)
    /\ restorePrompt' = NoPrompt
    /\ UNCHANGED <<currentPdfTemplate, autoSaveIntervalId, timers, timerCount, autosave,
                   lastSave, pageLoad>>
    /\ UNCHANGED coordVars /\ UNCHANGED asmVars /\ UNCHANGED calcVars

\* the cancel button of the restore prompt: clearSavedFormData(formType)
CancelRestore ==
    /\ pageLoad.phase = "ready"
    /\ restorePrompt.open
    /\ autosave' = clearSavedFormData(autosave, restorePrompt.formType)
    /\ restorePrompt' = NoPrompt
    /\ UNCHANGED <<currentPdfTemplate, autoSaveIntervalId, timers, timerCount, document,
                   lastSave, pageLoad>>
    /\ UNCHANGED coordVars /\ UNCHANGED asmVars /\ UNCHANGED calcVars

\* the user types into the form (the prompt does not block the inputs'
\* values from changing before initializeAutoSave runs or after)
UserInput ==
    /\ pageLoad.phase \in {"loaded", "ready"}
    /\ \E d \in TypedDoms : d # document /\ document' = d
    /\ UNCHANGED <<currentPdfTemplate, autoSaveIntervalId, timers, timerCount, autosave,
                   restorePrompt, lastSave, pageLoad>>
    /\ UNCHANGED coordVars /\ UNCHANGED asmVars /\ UNCHANGED calcVars

\* a report or statement page just loaded, with or without a snapshot of an
\* earlier session
InitAutoSave ==
    /\ storage = StoreAbsent
    /\ apiKey = FALSE
    /\ today = [year |-> 2026, month |-> 1, day |-> 13]
    /\ analysis = AnalysisIdle("none")
    /\ lastResolve = NoResolve
    /\ cachedKoreanFont = NoFont
    /\ cachedKoreanFontBold = NoFont
    /\ gen = [i \in Slots |-> GenIdle]
    /\ docCount = 0
    /\ loading = FALSE
    /\ toast = "none"
    /\ downloads = <<>>
    /\ calc = NoCalc
    /\ currentPdfTemplate = NoTemplate
    /\ autoSaveIntervalId = NullTimer
    /\ timers = {}
    /\ timerCount = 0
    /\ document = BlankDom
    /\ restorePrompt = NoPrompt
    /\ lastSave = NoSave
    /\ pageLoad \in {[formType |-> t, phase |-> "loaded"] : t \in {"report", "statement"}}
    /\ autosave \in {NoItems}
                     \cup {saveFormData(NoItems, d, pageLoad.formType, TRUE) : d \in TypedDoms}

NextAutoSave ==
    \/ initializeAutoSave
    \/ StartAutoSave
    \/ StopAutoSave
    \/ IntervalFires
    \/ BeforeUnload
    \/ Reload
    \/ ConfirmRestore
    \/ CancelRestore
    \/ UserInput

SpecAutoSave == InitAutoSave /\ [][NextAutoSave]_vars

\* ------------------------------------------------------------------------
\* Properties
\* ------------------------------------------------------------------------
\* the stored item holds an object whose entry for the page is a table
HasTable(store, pageNum) ==
    /\ store.k = "json"
    /\ store.v.t = "obj"
    /\ store.v[PageKey(pageNum)].t = "table"

TableOf(store, pageNum) == store.v[PageKey(pageNum)].f

Baseline(pageNum) == PDF_COORDINATES[PageKey(pageNum)]

C2_MissingCoordinateIsSkipped ==
    \A i \in Slots : gen[i].cause # "coordinate"

\* the sum the form's axle slots give: parseable and > 0 only
RECURSIVE SumAxles(_, _, _)
SumAxles(formData, suffix, i) ==
    IF i = 0 THEN 0
    ELSE LET v == parseFloat(Get(formData, AxleField(i, suffix)))
         IN  SumAxles(formData, suffix, i - 1) + (IF ~v.nan /\ v.h > 0 THEN v.h ELSE 0)

\* C3: whatever the resolved coordinate table, a total placed on the page
\* is the sum (2 decimals) of the form's parseable, positive axle slots.
C3_TotalIsSumOfPositiveAxles ==
    \A i \in Slots :
       \A k \in 1..Len(gen[i].drawn) :
          LET d == gen[i].drawn[k]
          IN  /\ d.field = "totalWeightMeasured" =>
                    d.text = toFixed2(SumAxles(gen[i].form, "Measured", 8))
              /\ d.field = "totalWeightViolation" =>
                    d.text = toFixed2(SumAxles(gen[i].form, "Violation", 8))

\* C4: a violation is reported iff the value parses to a number strictly
\* greater than the limit; a value equal to the limit and a value that does
\* not parse are not violations.  The same holds for the emphasis of an
\* axle value on the page against 11.00.
C4_StrictThreshold ==
    LET num == parseFloat(calc.value)
    IN  /\ calc.fn \in {"isViolation", "axleEmphasis"} =>
              (calc.result <=> (~num.nan /\ num.h > calc.limit))
        /\ (calc.fn # "none" /\ ~num.nan /\ num.h = calc.limit) => ~calc.result
        /\ (calc.fn # "none" /\ num.nan) => ~calc.result

\* 11.00 was evaluated against 11.00
C4_Witness ==
    /\ calc.fn = "isViolation"
    /\ calc.value = <<"1", "1", ".", "0", "0">>
    /\ calc.limit = VIOLATION_LIMITS_AXLE
    /\ ~calc.result

\* C5: an assembly never ends in an error because the placement of one
\* field failed inside addTextToPdf.
C5_PlacementFailureDoesNotAbort ==
    \A i \in Slots : gen[i].pc = "failed" => gen[i].cause # "placement"

\* C6: an assembly that ran while another one was in progress only draws
\* with resources of its own document, as it does when it runs alone.
C6_ConcurrentAssembliesIndependent ==
    \A i \in Slots :
       gen[i].overlapped =>
          \A k \in 1..Len(gen[i].drawn) : gen[i].drawn[k].fontDoc = i

\* the stored item is missing, is not JSON, or has the wrong shape for the page
Malformed(store, pageNum) ==
    \/ store.k # "json"
    \/ store.v.t # "obj"
    \/ store.v[PageKey(pageNum)].t # "table"
    \/ \E f \in DOMAIN TableOf(store, pageNum) :
          LET e == TableOf(store, pageNum)[f]
          IN  e.t = "null" \/ e.x = Undef \/ e.y = Undef

\* C7: with an absent or malformed stored override, getPageCoordinates
\* returns exactly the baseline table of the page.
C7_MalformedIsNoOverride ==
    (lastResolve.kind = "page" /\ Malformed(lastResolve.store, lastResolve.page)) =>
        lastResolve.coords = Baseline(lastResolve.page)

\* C8 as stated: once an analysis has failed, resolution is baseline-only
C8_BaselineOnlyAfterFailure ==
    analysis.outcome = "failed" =>
        \A p \in {1, 2} : getPageCoordinates(storage, p) = Baseline(p)

\* C8: a failing analysis stores nothing: the step on which an
\* analysis fails leaves the stored override exactly as it was, so
\* resolution after the failure is what it was before the analysis.
C8_FailedAnalysisStoresNothing ==
    [][(analysis' # analysis /\ analysis'.outcome = "failed") => storage' = storage]_vars

\* an analysis failed and the override of an earlier one is still applied
C8_Witness ==
    /\ analysis.outcome = "failed"
    /\ HasTable(storage, 1)
    /\ getPageCoordinates(storage, 1) # Baseline(1)

WitnessParts == <<"Office", "Position", "Name">>

PartValue(w, part) ==
    CASE part = 1 -> w.office
      [] part = 2 -> w.position
      [] part = 3 -> w.name

WitnessFieldNames ==
    {WitnessField(k, WitnessParts[part]) : k \in 1..(MaxWitnesses + 1), part \in 1..3}

SlotOf(field) ==
    CHOOSE k \in 1..(MaxWitnesses + 1) : \E part \in 1..3 : WitnessField(k, WitnessParts[part]) = field

PartOf(field) ==
    CHOOSE part \in 1..3 : WitnessField(SlotOf(field), WitnessParts[part]) = field

IsWitnessCall(op) == op.field \in WitnessFieldNames

\* C9: of a witness sequence of length n exactly the entries 1..min(n,3)
\* are placed, entry k at the coordinates of witness slot k and in order;
\* later entries are never placed and raise no error.
C9_WitnessesCappedInOrder ==
    \A i \in Slots :
       LET g  == gen[i]
           ws == g.witnesses
           W  == SelectSeq(g.calls, IsWitnessCall)
       IN  (g.type = "statement" /\ g.page # Undef) =>
              /\ \A j \in 1..Len(W) :
                    LET k == SlotOf(W[j].field)
                    IN  /\ k <= 3 /\ k <= Len(ws)
                        /\ W[j].kind = "call"
                        /\ W[j].text = PartValue(ws[k], PartOf(W[j].field))
                        /\ W[j].x = g.coords[W[j].field].x
                        /\ W[j].y = g.coords[W[j].field].y
              /\ \A k \in 1..Min(Len(ws), 3), part \in 1..3 :
                    (/\ Truthy(PartValue(ws[k], part))
                     /\ HasCoord(g.coords, WitnessField(k, WitnessParts[part]))) =>
                        \E j \in 1..Len(W) : W[j].field = WitnessField(k, WitnessParts[part])
              /\ \A j1, j2 \in 1..Len(W) :
                    j1 < j2 =>
                       3 * SlotOf(W[j1].field) + PartOf(W[j1].field)
                         < 3 * SlotOf(W[j2].field) + PartOf(W[j2].field)
              /\ g.cause \in {"coordinate", "placement"} => ~IsWitnessCall(g.calls[g.idx])

\* a statement with more than three witnesses was completed although the
\* coordinate table has a place for a fourth
C9_Witness ==
    \E i \in Slots :
       /\ gen[i].type = "statement"
       /\ gen[i].pc = "done"
       /\ Len(gen[i].witnesses) > 3
       /\ HasCoord(gen[i].coords, "witness4Name")
       /\ \E k \in 1..Len(gen[i].drawn) : gen[i].drawn[k].field = "witness3Name"

\* C10: a report is written to page index 0 and a statement to page index
\* 1; with a template that has fewer pages the assembly fails before any
\* text is placed.
C10_TargetPage ==
    \A i \in Slots :
       LET g        == gen[i]
           required == IF g.type = "report" THEN 1 ELSE 2
       IN  /\ g.page # Undef =>
                 /\ g.page = required - 1
                 /\ g.page < g.file.pages
           /\ (g.calls # <<>> \/ g.drawn # <<>>) => g.page # Undef
           /\ (/\ g.pc \notin {"idle", "loading"}
               /\ loadPdfTemplate(g.file)
               /\ g.file.pages < required) =>
                 /\ g.pc = "failed" /\ g.cause = "page"
                 /\ g.calls = <<>> /\ g.drawn = <<>>

\* a statement was requested with a one-page template
C10_Witness ==
    \E i \in Slots :
       /\ gen[i].type = "statement"
       /\ loadPdfTemplate(gen[i].file)
       /\ gen[i].file.pages = 1
       /\ gen[i].pc = "failed"
       /\ gen[i].cause = "page"

\* C11: when an error propagates out of an assembly (template, page,
\* coordinate, placement or download error) the operation is abandoned: the
\* caller gets the error, no document of this invocation was handed to the
\* browser, the overlay is hidden and an error toast is shown.
C11_ErrorAbandonsAssembly ==
    \A i \in Slots :
       gen[i].pc = "failed" =>
          /\ gen[i].cause \in {"template", "page", "coordinate", "placement", "download"}
          /\ \A k \in 1..Len(downloads) : downloads[k].doc # i
          /\ toast = "error"
          /\ ~loading

\* an assembly failed after part of the document had been drawn
C11_Witness ==
    \E i \in Slots :
       /\ gen[i].pc = "failed"
       /\ gen[i].cause = "placement"
       /\ gen[i].drawn # <<>>
       /\ downloads = <<>>
       /\ toast = "error"

\* C12: addTextToPdf with a text that is empty or only whitespace returns
\* at once: no font is fetched or embedded and nothing is drawn.
C12_BlankTextIsNoOp ==
    (calc.fn \in {"addTextToPdf", "addTextToPdfSecond"}
        /\ \A k \in 1..Len(calc.value) : calc.value[k] = " ") =>
       calc.result = "return"

\* the call of an assembly that produced a drawn text
CallOf(g, d) == g.calls[CHOOSE j \in 1..Len(g.calls) : g.calls[j].field = d.field]

\* C13: when a text with Hangul is drawn without a Korean font, what is
\* drawn is the text with every Hangul character replaced by '?' and every
\* other character unchanged, at the requested position, and the call
\* returns without error: no assembly fails on the placement of such a text.
C13_GlyphFallback ==
    \A i \in Slots :
       /\ \A k \in 1..Len(gen[i].drawn) :
             LET d  == gen[i].drawn[k]
                 op == CallOf(gen[i], d)
             IN  (hasKorean(op.text) /\ d.font \in {"Helvetica", "HelveticaBold"}) =>
                    /\ Len(d.text) = Len(op.text)
                    /\ \A c \in 1..Len(op.text) :
                          d.text[c] = IF op.text[c] \in HangulChars THEN "?" ELSE op.text[c]
                    /\ d.x = op.x /\ d.y = op.y
       /\ gen[i].cause = "placement" => ~hasKorean(gen[i].calls[gen[i].idx].text)

AxleFieldNames(suffix) == {AxleField(n, suffix) : n \in 1..8}

\* C14: a placed measured axle value is bold and red iff it is greater
\* than 11.00, regular and black otherwise; the values of the violation
\* row are always regular and black.
C14_AxleEmphasis ==
    \A i \in Slots :
       \A k \in 1..Len(gen[i].drawn) :
          LET d == gen[i].drawn[k]
              v == parseFloat(Get(gen[i].form, d.field))
          IN  /\ d.field \in AxleFieldNames("Measured") =>
                    /\ d.bold = (v.h > 1100)
                    /\ d.red = (v.h > 1100)
                    /\ d.font = IF v.h > 1100 THEN "HelveticaBold" ELSE "Helvetica"
              /\ d.field \in AxleFieldNames("Violation") =>
                    (~d.bold /\ ~d.red /\ d.font = "Helvetica")

\* 11.00 was placed plain, 11.01 emphasised, and a violation-row value plain
C14_Witness ==
    \E i \in Slots :
       /\ \E k \in 1..Len(gen[i].drawn) :
             LET d == gen[i].drawn[k]
             IN  d.field = "axle1Measured" /\ d.text = <<"1", "1", ".", "0", "0">> /\ ~d.bold
       /\ \E k \in 1..Len(gen[i].drawn) :
             LET d == gen[i].drawn[k]
             IN  d.field = "axle2Measured" /\ d.text = <<"1", "1", ".", "0", "1">>
                    /\ d.bold /\ d.red
       /\ \E k \in 1..Len(gen[i].drawn) :
             LET d == gen[i].drawn[k]
             IN  d.field = "axle3Violation" /\ ~d.bold /\ ~d.red

\* C15: the measured total is placed iff it is > 0 and the violation total
\* iff it is > 0 (where the table has their coordinates); the measured
\* total is bold and red iff it is greater than 44.00, and the violation
\* total is never emphasised.
C15_TotalsPlacedWhenPositive ==
    calc.fn = "insertTotalWeights" =>
       LET totalMeasured  == calc.value[1]
           totalViolation == calc.value[2]
           coords         == calc.limit
           ops            == calc.result
       IN  /\ (\E k \in 1..Len(ops) : ops[k].field = "totalWeightMeasured")
                 <=> (totalMeasured > 0 /\ coords["totalWeightMeasured"].t # "null")
           /\ (\E k \in 1..Len(ops) : ops[k].field = "totalWeightViolation")
                 <=> (totalViolation > 0 /\ coords["totalWeightViolation"].t # "null")
           /\ Len(ops) <= 2
           /\ \A k \in 1..Len(ops) :
                 /\ ops[k].field = "totalWeightMeasured" =>
                       /\ ops[k].bold = (totalMeasured > 4400)
                       /\ ops[k].red = (totalMeasured > 4400)
                       /\ parseFloat(ops[k].text).h = totalMeasured
                       /\ ops[k].x = coords["totalWeightMeasured"].x
                 /\ ops[k].field = "totalWeightViolation" =>
                       /\ ~ops[k].bold /\ ~ops[k].red
                       /\ parseFloat(ops[k].text).h = totalViolation
                       /\ ops[k].x = coords["totalWeightViolation"].x

\* a measured total of exactly 44.00 was placed without emphasis and a
\* violation total of 0 was not placed
C15_Witness ==
    /\ calc.fn = "insertTotalWeights"
    /\ calc.value = <<4400, 0>>
    /\ Len(calc.result) = 1
    /\ calc.result[1].field = "totalWeightMeasured"
    /\ calc.result[1].text = <<"4", "4", ".", "0", "0">>
    /\ ~calc.result[1].bold

\* C16: an assembly with an empty form and no witnesses draws nothing for
\* the absent values (a statement draws only its own creation date) and
\* does not end in an error of the assembler.
C16_EmptyFormDrawsNothing ==
    \A i \in Slots :
       (DOMAIN gen[i].form = {} /\ Len(gen[i].witnesses) = 0 /\ gen[i].page # Undef) =>
          /\ \A k \in 1..Len(gen[i].drawn) :
                gen[i].drawn[k].field \in {"statementYear", "statementMonth", "statementDay"}
          /\ gen[i].type = "report" => gen[i].drawn = <<>>
          /\ gen[i].cause \notin {"coordinate", "placement"}

\* C17: for a violation count >= 1 and an overweight >= 0 kg the fine is
\* the tier base (300000, 600000, 1000000 for the 1st, 2nd, 3rd and later
\* violation) plus 50000 per full 1000 kg; fine(3, 2500) = 1100000.
C17_FineByTier ==
    (calc.fn = "calculateFine" /\ calc.value >= 1 /\ calc.limit >= 0) =>
       LET tier == CASE calc.value = 1 -> 300000
                     [] calc.value = 2 -> 600000
                     [] OTHER          -> 1000000
       IN  /\ \E q \in 0..20 :
                 /\ 1000 * q <= calc.limit /\ calc.limit < 1000 * (q + 1)
                 /\ calc.result = tier + 50000 * q
           /\ (calc.value = 3 /\ calc.limit = 2500) => calc.result = 1100000

\* the fine of a second violation with 2999 kg overweight was computed
C17_Witness ==
    /\ calc.fn = "calculateFine"
    /\ calc.value = 2
    /\ calc.limit = 2999
    /\ calc.result = 700000

\* C18: the overweight percentage is a string with exactly one decimal
\* digit and a '%': "0.0%" when allowed <= 0, otherwise
\* max(0, (actual - allowed) / allowed * 100) rounded to one decimal.
C18_PercentageOneDecimal ==
    calc.fn = "calculateOverweightPercentage" =>
       LET r       == calc.result
           n       == Len(r)
           actual  == calc.value
           allowed == calc.limit
           over    == IF actual > allowed THEN actual - allowed ELSE 0
           tenths  == 10 * DigitsValue(r, 1, n - 3) + DigitVal(r[n - 1])
       IN  /\ n >= 4
           /\ r[n] = "%" /\ r[n - 2] = "." /\ r[n - 1] \in Digits
           /\ \A k \in 1..(n - 3) : r[k] \in Digits
           /\ allowed <= 0 => r = <<"0", ".", "0", "%">>
           /\ allowed > 0 =>
                 /\ 2 * allowed * tenths <= 2000 * over + allowed
                 /\ 2000 * over + allowed < 2 * allowed * (tenths + 1)
           /\ (actual = 50 /\ allowed = 40) => r = <<"2", "5", ".", "0", "%">>

\* the table the sum of calculateTotalWeight is checked against
PoolValue(s) ==
    CASE s = <<"1", "0", ".", "5">>      -> 1050
      [] s = <<"-", "3">>                -> 0 - 300
      [] s = <<"0", ".", "2", "5">>      -> 25
      [] s = <<"1", "2", "a">>           -> 1200
      [] OTHER                           -> 0

RECURSIVE PoolSum(_)
PoolSum(values) ==
    IF values = <<>> THEN 0 ELSE PoolValue(Head(values)) + PoolSum(Tail(values))

C20_SuggestedFilename ==
    \A k \in 1..Len(downloads) :
       LET d == downloads[k]
           n == d.name
       IN  /\ Len(n) = 14
           /\ n[1] = (IF gen[d.doc].type = "report" THEN "jeokbal-bogoseo"
                                                     ELSE "wiban-jinsulseo")
           /\ n[2] = "_"
           /\ \A j \in 3..10 : n[j] \in Digits
           /\ DigitsValue(n, 3, 6) = today.year
           /\ DigitsValue(n, 7, 8) = today.month
           /\ DigitsValue(n, 9, 10) = today.day
           /\ SubSeq(n, 11, 14) = <<".", "p", "d", "f">>

\* a report completed on 2026-01-13 was offered as jeokbal-bogoseo_20260113.pdf
C20_Witness ==
    /\ today = [year |-> 2026, month |-> 1, day |-> 13]
    /\ \E k \in 1..Len(downloads) :
          downloads[k].name = <<"jeokbal-bogoseo", "_", "2", "0", "2", "6", "0", "1",
                                "1", "3", ".", "p", "d", "f">>

\* C21: within one assembly the external steps are strictly sequential:
\* nothing is placed and nothing is downloaded while the template loads,
\* a placement (with the font fetch it triggers) is over before the next
\* starts, so what is on the page comes from the calls before the current
\* one, and a download exists only once every placement has completed.
C21_SequentialIO ==
    \A i \in Slots :
       LET g == gen[i]
           downloaded == \E k \in 1..Len(downloads) : downloads[k].doc = i
       IN  /\ g.pc \in {"idle", "loading"} =>
                g.drawn = <<>> /\ g.idx = 1 /\ g.calls = <<>> /\ ~downloaded
           /\ g.pc \in {"placing", "fetchRegular", "fetchBold"} =>
                /\ ~downloaded
                /\ Len(g.drawn) <= g.idx - 1
                /\ \A d \in 1..Len(g.drawn) :
                      \E j \in 1..(g.idx - 1) : g.calls[j].field = g.drawn[d].field
           /\ g.pc \in {"fetchRegular", "fetchBold"} =>
                /\ g.idx <= Len(g.calls)
                /\ \A d \in 1..Len(g.drawn) : g.drawn[d].field # g.calls[g.idx].field
           /\ downloaded => g.pc = "done" /\ g.idx > Len(g.calls)
           /\ g.pc = "done" => downloaded

\* an assembly that fetched a font for one of several placements was
\* downloaded
C21_Witness ==
    /\ gen[1].pc = "done"
    /\ Len(gen[1].drawn) >= 3
    /\ \E d \in 1..Len(gen[1].drawn) : gen[1].drawn[d].font = "NotoSansKR"
    /\ Len(downloads) = 1

\* C22: validateFormData is valid iff its errors list is empty; every
\* required field of the form type that is empty or whitespace-only has an
\* error and is in missingFields; a statement without a witness has an
\* error; collectAndValidateForm returns no data when validation fails.
C22_ValidationVerdict ==
    /\ (calc.fn = "validateFormData" /\ calc.limit \in {"report", "statement"}) =>
          LET r        == calc.result
              fields   == calc.value.fields
              required == IF calc.limit = "report"
                          THEN {"datetime", "location", "driverName", "plateNumber",
                                "authorName"}
                          ELSE {"datetime", "location"}
          IN  /\ r.valid <=> (r.errors = <<>>)
              /\ \A f \in required :
                    (f \notin DOMAIN fields \/ IsBlank(fields[f])) =>
                       /\ \E k \in 1..Len(r.errors) :
                             r.errors[k].kind = "required" /\ r.errors[k].field = f
                       /\ \E k \in 1..Len(r.missingFields) : r.missingFields[k] = f
              /\ (calc.limit = "statement" /\ Len(calc.value.witnesses) < 1) =>
                    \E k \in 1..Len(r.errors) : r.errors[k].kind = "minWitnesses"
    /\ calc.fn = "collectAndValidateForm" =>
          /\ ~calc.result.valid => calc.result.data.null
          /\ ~calc.result.valid => calc.result.errors # <<>>

\* a report whose date is whitespace-only and whose author is blank was
\* rejected with both fields missing
C22_Witness ==
    /\ calc.fn = "validateFormData"
    /\ calc.limit = "report"
    /\ DOMAIN calc.value.fields # {}
    /\ calc.value.fields["datetime"] = <<" ">>
    /\ ~calc.result.valid
    /\ \E k \in 1..Len(calc.result.missingFields) : calc.result.missingFields[k] = "datetime"
    /\ \E k \in 1..Len(calc.result.missingFields) : calc.result.missingFields[k] = "authorName"

\* C26: every non-empty value of the mapping collectFormData('report')
\* produces, in particular the detection date/time and the detection
\* location, is placed by generateReportPdf handed that mapping unchanged.
C26_CollectedValuesArePlaced ==
    calc.fn = "generateReportPdf" =>
       LET formData == calc.value
           calls    == calc.result
       IN  /\ \A key \in {"location", "driverName", "plateNumber", "authorName"} :
                 Truthy(formData[key]) =>
                    \E j \in 1..Len(calls) :
                       calls[j].field = key /\ calls[j].text = formData[key]
           /\ Truthy(formData["datetime"]) =>
                 \E j \in 1..Len(calls) :
                    calls[j].field = "dateYear" /\ Truthy(calls[j].text)

\* C27: the total the form shows (calculateTotalWeight over the axle
\* inputs) equals the totalMeasured insertAxleMeasurements accumulates for
\* the same values.
C27_FormTotalEqualsPdfTotal ==
    calc.fn = "totalWeight" => calc.limit = calc.result

\* C23: whenever text is drawn with a cached Korean font, that font was
\* embedded into the document that owns the page drawn on.
C23_CachedFontOfSameDocument ==
    \A i \in Slots :
       \A k \in 1..Len(gen[i].drawn) :
          gen[i].drawn[k].font \in {"NotoSansKR", "NotoSansKRBold"} =>
             gen[i].drawn[k].fontDoc = i

\* C29: an assembly that shows the loading overlay eventually hides it,
\* whatever its outcome, and once it has ended (downloaded, or failed at
\* the template, the page, a placement or the download) the overlay is gone.
C29_OverlayEventuallyHidden ==
    /\ (InProgress(gen[1]) /\ loading) ~> ~loading
    /\ [](gen[1].pc \in {"done", "failed"} => ~loading)
    /\ [](InProgress(gen[1]) => loading)

\* an assembly whose download failed after all placements left no overlay
C29_Witness ==
    /\ gen[1].pc = "failed"
    /\ gen[1].cause = "download"
    /\ gen[1].drawn # <<>>
    /\ ~loading

\* C25: saveFormData followed by restoreFormData on the cleared form puts
\* every non-empty collected value back into the input element it was
\* collected from.
C25_AutosaveRoundTrip ==
    calc.fn = "saveRestore" =>
       LET before    == calc.value
           after     == calc.result
           collected == collectFormData(before, calc.limit)
       IN  \A key \in DOMAIN collected.fields :
              LET id == ElementId(calc.limit, key)
              IN  (id \in DOMAIN before.el /\ trim(before.el[id]) # <<>>) =>
                     after.el[id] = trim(before.el[id])

\* C30: currentPdfTemplate is null or a file whose type is application/pdf
\* or whose name ends in .pdf (in any letter case); a selection of a file
\* that is neither resets it to null, whatever was selected before, a
\* selection event without a file leaves it unchanged, clearPdfTemplate
\* makes it null, and hasPdfTemplate() is true iff it is not null.
C30_TemplateIsNullOrPdf ==
    LET t       == currentPdfTemplate
        pdfName(f) ==
            /\ Len(f.name) >= 4
            /\ f.name[Len(f.name) - 3] = "."
            /\ f.name[Len(f.name) - 2] \in {"p", "P"}
            /\ f.name[Len(f.name) - 1] \in {"d", "D"}
            /\ f.name[Len(f.name)] \in {"f", "F"}
        pdf(f)  == f.type = "application/pdf" \/ pdfName(f)
    IN  /\ t.isFile => pdf(t)
        /\ calc.fn = "templateChange" =>
              /\ (calc.value.isFile /\ ~pdf(calc.value)) => ~t.isFile
              /\ (calc.value.isFile /\ pdf(calc.value)) => t = calc.value
              /\ ~calc.value.isFile => t = calc.limit
              /\ calc.result <=> t.isFile
        /\ calc.fn = "clearPdfTemplate" => ~t.isFile /\ ~calc.result

\* a text file was selected while a valid template was set, and reset it
C30_Witness ==
    /\ calc.fn = "templateChange"
    /\ calc.limit.isFile
    /\ calc.value.isFile
    /\ calc.value.type = "text/plain"
    /\ calc.value.name = <<"a", ".", "t", "x", "t">>
    /\ ~currentPdfTemplate.isFile

\* C24: while the restore prompt is open, the stored item still holds the
\* snapshot initializeAutoSave read: no autosave write has replaced it with
\* the contents of the form that was not restored yet.
C24_SnapshotKeptUntilAnswer ==
    restorePrompt.open =>
       /\ autosave[restorePrompt.formType].present
       /\ autosave[restorePrompt.formType].data = restorePrompt.savedData

\* C28: at most one autosave interval is active, and it is the one
\* autoSaveIntervalId names; after stopAutoSave none is active and the id
\* is null; a startAutoSave with a form type makes one immediate save.
C28_OneAutoSaveTimer ==
    /\ [](Cardinality(timers) <= 1)
    /\ [](autoSaveIntervalId = NullTimer => timers = {})
    /\ [](autoSaveIntervalId # NullTimer => \A t \in timers : t.id = autoSaveIntervalId)
    /\ [][(autoSaveIntervalId' # autoSaveIntervalId /\ autoSaveIntervalId' # NullTimer) =>
             /\ lastSave'.by = "immediate"
             /\ \E t \in timers' : t.id = autoSaveIntervalId' /\ t.formType = lastSave'.formType
         ]_vars
    /\ [][(autoSaveIntervalId # NullTimer /\ autoSaveIntervalId' = NullTimer) =>
             timers' = {}]_vars

\* autosave was started a second time and one interval is active
C28_Witness ==
    /\ timerCount = 2
    /\ autoSaveIntervalId = 2
    /\ Cardinality(timers) = 1
    /\ lastSave.by = "immediate"

====
